---- MODULE Spec2Model ----
(***************************************************************************)
(* Model of the CSV codec (parseCSV / exportCSV, src/types.ts) and of the  *)
(* schema validator (validateDataset, src/components/Visualizer.tsx).      *)
(*                                                                         *)
(* Text is a sequence of one-character strings.  A cell value is a record  *)
(* whose first field `kind` is the JavaScript type of the value; a row is  *)
(* the sequence of its own properties <<key, value>> in creation order.    *)
(***************************************************************************)
EXTENDS Integers, Sequences, FiniteSets, TLC

VARIABLES
  content,          \* the CSV text given to parseCSV
  headers,          \* the headers parseCSV returned
  data,             \* the rows: parseCSV's, or a transform's
  columns,          \* the column descriptors given to validateDataset
  result,           \* the ValidationResult validateDataset returned
  validCellCount,   \* validateDataset's counter at its return
  totalCellCount,   \* validateDataset's counter at its return
  csv,              \* the text exportCSV returned
  reparsed,         \* parseCSV(csv)
  pc,               \* "text", "rows", "validated", "revalidated", "exported",
                    \* "reparsed"; "host" while the host application runs
  cleanedData,          \* state.cleanedData
  actions,              \* state.actions: records [id, type, status]
  isProcessing,         \* state.isProcessing
  nuclearMode,          \* state.nuclearMode
  agentLogs,            \* state.agentLogs: records [agent, level]
  validationResult,     \* state.validationResult: <<>> or <<the result>>
  isValidationModalOpen,\* state.isValidationModalOpen
  viewMode,             \* 'raw' or 'cleaned'
  calls,                \* the collaborator calls in flight, with what the
                        \* handler that awaits them holds in its closure
  stage,                \* state.stage: 'idle', 'analyzing', 'command_center'
  rawData,              \* state.rawData
  analysis,             \* state.analysis: <<>> (null) or <<the analysis>>
  issued,               \* history: the number of collaborator calls issued
  loaded                \* history: the number of the upload call whose
                        \* dataset is loaded, 0 when none is

\* The state of the host application (App.tsx)
hostVars == <<cleanedData, actions, isProcessing, nuclearMode, agentLogs,
              validationResult, isValidationModalOpen, viewMode, calls,
              stage, rawData, analysis, issued, loaded>>

vars == <<content, headers, data, columns, result, validCellCount,
          totalCellCount, csv, reparsed, pc, hostVars>>

(***************************************************************************)
(* Characters and strings                                                  *)
(***************************************************************************)
QUOTE == "\""
COMMA == ","
LF == "\n"
CR == "\r"

\* The characters String.prototype.trim strips that the inputs can contain.
WhiteSpace == {" ", "\t", CR, LF}

UpperToLower ==
  [c \in {"A","B","C","D","E","F","G","H","I","J","K","L","M","N","O","P","Q",
          "R","S","T","U","V","W","X","Y","Z"} |->
     CASE c = "A" -> "a" [] c = "B" -> "b" [] c = "C" -> "c" [] c = "D" -> "d"
       [] c = "E" -> "e" [] c = "F" -> "f" [] c = "G" -> "g" [] c = "H" -> "h"
       [] c = "I" -> "i" [] c = "J" -> "j" [] c = "K" -> "k" [] c = "L" -> "l"
       [] c = "M" -> "m" [] c = "N" -> "n" [] c = "O" -> "o" [] c = "P" -> "p"
       [] c = "Q" -> "q" [] c = "R" -> "r" [] c = "S" -> "s" [] c = "T" -> "t"
       [] c = "U" -> "u" [] c = "V" -> "v" [] c = "W" -> "w" [] c = "X" -> "x"
       [] c = "Y" -> "y" [] c = "Z" -> "z"]

\* String.prototype.toLowerCase
toLowerCase(s) ==
  [i \in 1..Len(s) |-> IF s[i] \in DOMAIN UpperToLower THEN UpperToLower[s[i]] ELSE s[i]]

RECURSIVE TrimStart(_)
TrimStart(s) ==
  IF s # <<>> /\ Head(s) \in WhiteSpace THEN TrimStart(Tail(s)) ELSE s

RECURSIVE TrimEnd(_)
TrimEnd(s) ==
  IF s # <<>> /\ s[Len(s)] \in WhiteSpace THEN TrimEnd(SubSeq(s, 1, Len(s) - 1)) ELSE s

\* String.prototype.trim
trim(s) == TrimEnd(TrimStart(s))

\* Array.prototype.join
RECURSIVE join(_, _)
join(parts, sep) ==
  IF parts = <<>> THEN <<>>
  ELSE IF Len(parts) = 1 THEN parts[1]
  ELSE parts[1] \o sep \o join(Tail(parts), sep)

(***************************************************************************)
(* Numbers.  A number is [inf, n]: inf = 0 and n the integer value, or     *)
(* inf = 1 / -1 for +Infinity / -Infinity.  NaN is the record NaN.  The    *)
(* numeric literals of the inputs are signed decimal integers and          *)
(* Infinity; -0 is identified with 0 (they are === in JavaScript and both  *)
(* print as "0").                                                          *)
(***************************************************************************)
DigitValue ==
  [c \in {"0","1","2","3","4","5","6","7","8","9"} |->
     CASE c = "0" -> 0 [] c = "1" -> 1 [] c = "2" -> 2 [] c = "3" -> 3
       [] c = "4" -> 4 [] c = "5" -> 5 [] c = "6" -> 6 [] c = "7" -> 7
       [] c = "8" -> 8 [] c = "9" -> 9]

DigitChar == <<"0","1","2","3","4","5","6","7","8","9">>

IsDigits(s) == s # <<>> /\ \A i \in 1..Len(s) : s[i] \in DOMAIN DigitValue

RECURSIVE DigitsValue(_, _)
DigitsValue(s, acc) ==
  IF s = <<>> THEN acc ELSE DigitsValue(Tail(s), 10 * acc + DigitValue[Head(s)])

NaN == [nan |-> TRUE, inf |-> 0, n |-> 0]
Finite(k) == [nan |-> FALSE, inf |-> 0, n |-> k]
Infinite(sign) == [nan |-> FALSE, inf |-> sign, n |-> 0]
InfinityText == <<"I","n","f","i","n","i","t","y">>

\* Number(string): StringToNumber of the trimmed text; the empty text is 0.
Number(s) ==
  LET t == trim(s)
      signed == t # <<>> /\ Head(t) \in {"+", "-"}
      sign == IF signed /\ Head(t) = "-" THEN -1 ELSE 1
      body == IF signed THEN Tail(t) ELSE t
  IN  IF t = <<>> THEN Finite(0)
      ELSE IF body = InfinityText THEN Infinite(sign)
      ELSE IF IsDigits(body) THEN Finite(sign * DigitsValue(body, 0))
      ELSE NaN

isNaN(x) == x.nan

RECURSIVE NatToString(_)
NatToString(k) ==
  IF k < 10 THEN <<DigitChar[k + 1]>>
  ELSE NatToString(k \div 10) \o <<DigitChar[(k % 10) + 1]>>

\* Number::toString
NumberToString(x) ==
  IF x.inf = 1 THEN InfinityText
  ELSE IF x.inf = -1 THEN <<"-">> \o InfinityText
  ELSE IF x.n < 0 THEN <<"-">> \o NatToString(-x.n)
  ELSE NatToString(x.n)

(***************************************************************************)
(* Cell values and rows                                                    *)
(***************************************************************************)
Null == [kind |-> "null"]
Undefined == [kind |-> "undefined"]
Num(x) == [kind |-> "number", inf |-> x.inf, n |-> x.n]
Bool(b) == [kind |-> "boolean", b |-> b]
Str(s) == [kind |-> "string", s |-> s]
\* The _flags map of a row: an object, whose content no modelled code reads.
FlagsObject == [kind |-> "object"]

\* typeof val
typeof(val) == IF val.kind = "null" THEN "object" ELSE val.kind

ID == <<"i","d">>
FLAGS == <<"_","f","l","a","g","s">>
ObjectText == <<"[","o","b","j","e","c","t"," ","O","b","j","e","c","t","]">>

\* String(val) and '' + val
String(val) ==
  CASE val.kind = "null" -> <<"n","u","l","l">>
    [] val.kind = "undefined" -> <<"u","n","d","e","f","i","n","e","d">>
    [] val.kind = "number" -> NumberToString(val)
    [] val.kind = "boolean" -> IF val.b THEN <<"t","r","u","e">> ELSE <<"f","a","l","s","e">>
    [] val.kind = "string" -> val.s
    [] OTHER -> ObjectText

HasKey(row, key) == \E i \in 1..Len(row) : row[i][1] = key

\* row[key]
Get(row, key) ==
  IF HasKey(row, key)
  THEN row[CHOOSE i \in 1..Len(row) : row[i][1] = key][2]
  ELSE Undefined

\* row[key] = val: an existing property keeps its place, a new one is added last
Set(row, key, val) ==
  IF HasKey(row, key)
  THEN [i \in 1..Len(row) |-> IF row[i][1] = key THEN <<key, val>> ELSE row[i]]
  ELSE Append(row, <<key, val>>)

\* An array index: a canonical decimal numeral below 2^32 - 1.  (Numerals of
\* at most nine digits are; the model has no longer ones.)
IsArrayIndex(key) ==
  IsDigits(key) /\ Len(key) <= 9 /\ (Len(key) = 1 \/ Head(key) # "0")

RECURSIVE SortIndexKeys(_)
SortIndexKeys(ks) ==
  IF ks = {} THEN <<>>
  ELSE LET least == CHOOSE k \in ks : \A o \in ks : DigitsValue(k, 0) <= DigitsValue(o, 0)
       IN  <<least>> \o SortIndexKeys(ks \ {least})

\* Object.keys(row): array-index keys in ascending numeric order, then the
\* other keys in creation order.
ObjectKeys(row) ==
  LET keys == [i \in 1..Len(row) |-> row[i][1]]
      IsIndex(k) == IsArrayIndex(k)
      NotIndex(k) == ~IsArrayIndex(k)
  IN  SortIndexKeys({keys[i] : i \in {j \in 1..Len(keys) : IsIndex(keys[j])}})
        \o SelectSeq(keys, NotIndex)

(***************************************************************************)
(* CSV codec: parseCSV                                                     *)
(***************************************************************************)
\* content.split(/\r?\n/): a line ends at LF, and a CR right before that LF
\* belongs to the separator.
RECURSIVE SplitLinesFrom(_, _, _)
SplitLinesFrom(text, i, line) ==
  IF i > Len(text) THEN <<line>>
  ELSE IF text[i] = LF
       THEN <<IF line # <<>> /\ line[Len(line)] = CR
              THEN SubSeq(line, 1, Len(line) - 1) ELSE line>>
            \o SplitLinesFrom(text, i + 1, <<>>)
       ELSE SplitLinesFrom(text, i + 1, Append(line, text[i]))

SplitLines(text) == SplitLinesFrom(text, 1, <<>>)

\* NotBlank that tests the line itself, not the trimmed line.
NotBlankUntrimmed(line) == line # <<>>

\* The filter of the lines: line.trim() !== ''
NotBlank(line) == trim(line) # <<>>

\* e.replace(/^"|"$/g, ''): one quote at the start and one at the end
StripQuotes(e) ==
  LET a == IF e # <<>> /\ Head(e) = QUOTE THEN Tail(e) ELSE e
  IN  IF a # <<>> /\ a[Len(a)] = QUOTE THEN SubSeq(a, 1, Len(a) - 1) ELSE a

\* parseLineFrom that ends a field at every comma, also inside quotes.
RECURSIVE parseLineEveryComma(_, _, _, _, _)
parseLineEveryComma(line, i, res, entry, inQuotes) ==
  IF i > Len(line) THEN Append(res, trim(entry))
  ELSE IF line[i] = QUOTE THEN parseLineEveryComma(line, i + 1, res, entry, ~inQuotes)
  ELSE IF line[i] = COMMA
       THEN parseLineEveryComma(line, i + 1, Append(res, trim(entry)), <<>>, inQuotes)
  ELSE parseLineEveryComma(line, i + 1, res, Append(entry, line[i]), inQuotes)

RECURSIVE parseLineFrom(_, _, _, _, _)
parseLineFrom(line, i, res, entry, inQuotes) ==
  IF i > Len(line) THEN Append(res, trim(entry))
  ELSE IF line[i] = QUOTE THEN parseLineFrom(line, i + 1, res, entry, ~inQuotes)
  ELSE IF line[i] = COMMA /\ ~inQuotes
       THEN parseLineFrom(line, i + 1, Append(res, trim(entry)), <<>>, inQuotes)
  ELSE parseLineFrom(line, i + 1, res, Append(entry, line[i]), inQuotes)

parseLine(line) ==
  LET res == parseLineFrom(line, 1, <<>>, <<>>, FALSE)
  IN  [k \in 1..Len(res) |-> StripQuotes(res[k])]

NullText == <<"n","u","l","l">>
NanText == <<"n","a","n">>
TrueText == <<"t","r","u","e">>
FalseText == <<"f","a","l","s","e">>

\* InferCell with the numeric test before the null test.
InferCellNumberFirst(val) ==
  LET numVal == Number(val)
  IN  IF ~isNaN(numVal) THEN Num(numVal)
      ELSE IF val = <<>> \/ toLowerCase(val) = NullText \/ toLowerCase(val) = NanText
      THEN Null
      ELSE IF toLowerCase(val) = TrueText THEN Bool(TRUE)
      ELSE IF toLowerCase(val) = FalseText THEN Bool(FALSE)
      ELSE Str(val)

\* The type inference of one field (the body of headers.forEach).
InferCell(val) ==
  LET numVal == Number(val)
  IN  IF val = <<>> \/ toLowerCase(val) = NullText \/ toLowerCase(val) = NanText
      THEN Null
      ELSE IF ~isNaN(numVal) /\ trim(val) # <<>> THEN Num(numVal)
      ELSE IF toLowerCase(val) = TrueText THEN Bool(TRUE)
      ELSE IF toLowerCase(val) = FalseText THEN Bool(FALSE)
      ELSE Str(val)

RowId(i) == Str(<<"r","o","w","-">> \o NatToString(i))

\* headers.forEach((header, index) => row[header] = ...)
RECURSIVE FillRow(_, _, _, _)
FillRow(row, hdrs, values, index) ==
  IF index > Len(hdrs) THEN row
  ELSE FillRow(Set(row, hdrs[index], InferCell(values[index])), hdrs, values, index + 1)

\* AcceptLine that also takes a line with too many fields (a truncated row).
AcceptLineOrLonger(values, hdrs) == Len(values) >= Len(hdrs)

\* The accept test of a data line: values.length === headers.length
AcceptLine(values, hdrs) == Len(values) = Len(hdrs)

\* for (let i = 1; i < lines.length; i++): lines[i] is lines[i + 1] here,
\* sequences being 1-based.
RECURSIVE ParseRows(_, _, _)
ParseRows(lines, hdrs, i) ==
  IF i >= Len(lines) THEN <<>>
  ELSE LET values == parseLine(lines[i + 1])
       IN  (IF AcceptLine(values, hdrs)
            THEN <<FillRow(<<<<ID, RowId(i)>>>>, hdrs, values, 1)>>
            ELSE <<>>)
           \o ParseRows(lines, hdrs, i + 1)

parseCSV(text) ==
  LET lines == SelectSeq(SplitLines(text), NotBlank)
  IN  IF Len(lines) = 0 THEN [headers |-> <<>>, data |-> <<>>]
      ELSE LET hdrs == parseLine(lines[1])
           IN  [headers |-> hdrs, data |-> ParseRows(lines, hdrs, 1)]

(***************************************************************************)
(* CSV codec: exportCSV                                                    *)
(***************************************************************************)
\* Object.keys(data[0]).filter(k => k !== 'id')
ExportKept(k) == k # ID

ExportHeaders(rows) == SelectSeq(ObjectKeys(rows[1]), ExportKept)

\* .replace(/"/g, '""')
RECURSIVE DoubleQuotes(_)
DoubleQuotes(s) ==
  IF s = <<>> THEN <<>>
  ELSE (IF Head(s) = QUOTE THEN <<QUOTE, QUOTE>> ELSE <<Head(s)>>) \o DoubleQuotes(Tail(s))

\* ('' + (val ?? ''))
CellText(val) == IF val.kind \in {"null", "undefined"} THEN <<>> ELSE String(val)

\* ExportField that wraps a text in quotes only when it holds a comma, a
\* quote or a line end.
ExportFieldQuotedWhenNeeded(val) ==
  IF \E i \in 1..Len(CellText(val)) : CellText(val)[i] \in {COMMA, QUOTE, LF}
  THEN <<QUOTE>> \o DoubleQuotes(CellText(val)) \o <<QUOTE>>
  ELSE CellText(val)

ExportField(val) == <<QUOTE>> \o DoubleQuotes(CellText(val)) \o <<QUOTE>>

ExportLine(row, hdrs) ==
  join([k \in 1..Len(hdrs) |-> ExportField(Get(row, hdrs[k]))], <<COMMA>>)

exportCSV(rows) ==
  IF Len(rows) = 0 THEN <<>>
  ELSE LET hdrs == ExportHeaders(rows)
           csvRows == <<join(hdrs, <<COMMA>>)>>
                        \o [r \in 1..Len(rows) |-> ExportLine(rows[r], hdrs)]
       IN  join(csvRows, <<LF>>)

(***************************************************************************)
(* IEEE-754 double arithmetic for the score.  A positive value is a pair   *)
(* [bits, scale]: the binary numeral bits (most significant first) times   *)
(* 2^-scale.  Long numerals are handled in limbs of LimbBits bits, so that *)
(* every intermediate integer stays far below 2^31.                        *)
(***************************************************************************)
MantissaBits == 53
LimbBits == 16
LimbBase == 2 ^ LimbBits

Zeros(n) == [i \in 1..n |-> 0]

\* The numeral without its leading zeros
StripZeros(bits) ==
  IF \A i \in 1..Len(bits) : bits[i] = 0 THEN <<>>
  ELSE LET first == CHOOSE i \in 1..Len(bits) :
                      bits[i] = 1 /\ \A j \in 1..(i - 1) : bits[j] = 0
       IN  SubSeq(bits, first, Len(bits))

\* bits + 1: the last 0 becomes 1 and the 1s after it become 0
Increment(bits) ==
  IF \A i \in 1..Len(bits) : bits[i] = 1 THEN <<1>> \o Zeros(Len(bits))
  ELSE LET last == CHOOSE i \in 1..Len(bits) :
                     bits[i] = 0 /\ \A j \in (i + 1)..Len(bits) : bits[j] = 1
       IN  SubSeq(bits, 1, last - 1) \o <<1>> \o Zeros(Len(bits) - last)

\* Round an exact value (sticky: a nonzero part below the last bit given) to
\* 53 significant bits, to nearest, ties to even.
RoundToDouble(bits, scale, sticky) ==
  LET sig == StripZeros(bits)
      extra == Len(sig) - MantissaBits
  IN  IF extra <= 0 THEN [bits |-> sig, scale |-> scale]
      ELSE LET kept == SubSeq(sig, 1, MantissaBits)
               guard == sig[MantissaBits + 1]
               rest == \E i \in (MantissaBits + 2)..Len(sig) : sig[i] = 1
               up == guard = 1 /\ (rest \/ sticky \/ kept[MantissaBits] = 1)
           IN  [bits |-> IF up THEN Increment(kept) ELSE kept, scale |-> scale - extra]

\* The bits of a numeral given by its limbs (most significant first)
LimbsToBits(limbs) ==
  [i \in 1..(LimbBits * Len(limbs)) |->
     (limbs[((i - 1) \div LimbBits) + 1] \div (2 ^ (LimbBits - 1 - ((i - 1) % LimbBits)))) % 2]

RECURSIVE BitsValue(_, _)
BitsValue(bits, acc) ==
  IF bits = <<>> THEN acc ELSE BitsValue(Tail(bits), 2 * acc + Head(bits))

\* The limbs of a numeral, which is first padded to whole limbs
BitsToLimbs(bits) ==
  LET count == (Len(bits) + LimbBits - 1) \div LimbBits
      padded == Zeros(LimbBits * count - Len(bits)) \o bits
  IN  [k \in 1..count |->
         BitsValue(SubSeq(padded, LimbBits * (k - 1) + 1, LimbBits * k), 0)]

\* The first n limbs after the binary point of r / t (r < t), then the remainder
RECURSIVE FractionLimbs(_, _, _, _)
FractionLimbs(r, t, n, acc) ==
  IF n = 0 THEN [limbs |-> acc, rem |-> r]
  ELSE FractionLimbs((r * LimbBase) % t, t, n - 1, Append(acc, (r * LimbBase) \div t))

\* The fraction limbs taken: they hold 53 significant bits and a guard bit of
\* every quotient that is at least 2^-10, that is for a divisor up to 1024.
QuotientLimbs == 4

\* a / b for integers 0 < a < b <= 1024
Divide(a, b) ==
  LET q == FractionLimbs(a, b, QuotientLimbs, <<>>)
  IN  RoundToDouble(LimbsToBits(q.limbs), LimbBits * QuotientLimbs, q.rem # 0)

\* limbs times k, from the last limb (i = Len(limbs)) to the first
RECURSIVE TimesSmall(_, _, _, _, _)
TimesSmall(limbs, i, k, carry, acc) ==
  IF i = 0 THEN <<carry>> \o acc
  ELSE LET t == limbs[i] * k + carry
       IN  TimesSmall(limbs, i - 1, k, t \div LimbBase, <<t % LimbBase>> \o acc)

\* x * 100
Times100(x) ==
  LET limbs == BitsToLimbs(x.bits)
  IN  RoundToDouble(LimbsToBits(TimesSmall(limbs, Len(limbs), 100, 0, <<>>)), x.scale, FALSE)

\* Math.round(x) = floor(x + 1/2), for a positive x below 2^30 that has at
\* least one bit after the binary point
MathRound(x) ==
  LET pad == Zeros(x.scale + 1) \o x.bits
      whole == Len(pad) - x.scale
  IN  BitsValue(StripZeros(SubSeq(pad, 1, whole)), 0) + pad[whole + 1]

\* Math.round((validCellCount / totalCellCount) * 100), totalCellCount > 0
ScoreOf(valid, total) ==
  IF valid = 0 THEN 0
  ELSE IF valid = total THEN 100
  ELSE MathRound(Times100(Divide(valid, total)))

(***************************************************************************)
(* Schema validator: validateDataset                                       *)
(***************************************************************************)
\* SkipColumn without the test of the name.
SkipColumnMixedOnly(col) == col.type = "mixed"

\* The skip test of columns.forEach
SkipColumn(col) == col.type = "mixed" \/ col.name = ID

\* CellValid that also holds a 'string' column to the string type.
CellValidStringChecked(val, col) ==
  IF val # Null /\ val # Undefined /\ val # Str(<<>>)
  THEN IF col.type = "number" THEN ~(typeof(val) # "number")
       ELSE IF col.type = "boolean" THEN ~(typeof(val) # "boolean")
       ELSE IF col.type = "string" THEN ~(typeof(val) # "string")
       ELSE TRUE
  ELSE TRUE

\* CellValid without the test that a value exists.
CellValidNoPresence(val, col) ==
  IF col.type = "number" THEN ~(typeof(val) # "number")
  ELSE IF col.type = "boolean" THEN ~(typeof(val) # "boolean")
  ELSE TRUE

\* The validity of one cell (isValid at the end of the row callback)
CellValid(val, col) ==
  IF val # Null /\ val # Undefined /\ val # Str(<<>>)
  THEN IF col.type = "number" THEN ~(typeof(val) # "number")
       ELSE IF col.type = "boolean" THEN ~(typeof(val) # "boolean")
       ELSE TRUE
  ELSE TRUE

\* examples.length <= 3 in place of examples.length < 3
MaxExamplesOneMore == 3 + 1

MaxExamples == 3

\* data.forEach over the rows of one column: every row adds one to the total
\* counter; an invalid cell adds one to issues and, while fewer than three
\* examples are held, its text to examples; a valid one adds one to the valid
\* counter.  The invalid cells are taken in row order.
ScanColumn(rows, col, acc) ==
  LET values == [idx \in 1..Len(rows) |-> Get(rows[idx], col.name)]
      Invalid(val) == ~CellValid(val, col)
      bad == SelectSeq(values, Invalid)
      shown == IF Len(bad) < MaxExamples THEN Len(bad) ELSE MaxExamples
  IN  [issues |-> Len(bad),
       examples |-> [k \in 1..shown |-> String(bad[k])],
       valid |-> acc.valid + (Len(rows) - Len(bad)),
       total |-> acc.total + Len(rows)]

\* columns.forEach; st holds errors, validCellCount and totalCellCount.
RECURSIVE ScanColumns(_, _, _, _)
ScanColumns(rows, cols, c, st) ==
  IF c > Len(cols) THEN st
  ELSE IF SkipColumn(cols[c]) THEN ScanColumns(rows, cols, c + 1, st)
  ELSE LET acc == ScanColumn(rows, cols[c], [valid |-> st.valid, total |-> st.total])
           errs == IF acc.issues > 0
                   THEN Append(st.errors,
                          [column |-> cols[c].name, expectedType |-> cols[c].type,
                           issueCount |-> acc.issues, examples |-> acc.examples])
                   ELSE st.errors
       IN  ScanColumns(rows, cols, c + 1,
             [errors |-> errs, valid |-> acc.valid, total |-> acc.total])

\* StartOfCall that keeps the counters the call before left.
StartOfCallCarried(valid, total) == [errors |-> <<>>, valid |-> valid, total |-> total]

\* const errors = []; let validCellCount = 0; let totalCellCount = 0: the
\* locals at the start of a call, whatever the counters (valid, total) were
\* when the call before returned
StartOfCall(valid, total) == [errors |-> <<>>, valid |-> 0, total |-> 0]

\* A call of validateDataset made after a call that left the given counters
validateDatasetAfter(rows, cols, valid, total) ==
  LET st == ScanColumns(rows, cols, 1, StartOfCall(valid, total))
      score == IF st.total = 0 THEN 100 ELSE ScoreOf(st.valid, st.total)
  IN  [isValid |-> Len(st.errors) = 0,
       score |-> score,
       errors |-> st.errors,
       totalRowsChecked |-> Len(rows),
       validCellCount |-> st.valid,
       totalCellCount |-> st.total]

validateDataset(rows, cols) == validateDatasetAfter(rows, cols, 0, 0)

(***************************************************************************)
(* Inputs                                                                  *)
(***************************************************************************)
MaxCols == 2
MaxRows == 2

SeqsOf(S, lo, hi) == UNION {[1..n -> S] : n \in lo..hi}

CsvLine(fields) == join(fields, <<COMMA>>)
CsvText(lines) == join(lines, <<LF>>)

\* Header fields: plain, the identifier's name, empty, quoted empty, quoted
\* with a comma inside, and an array-index name.
HeaderFields ==
  { <<"a">>, ID, <<>>, <<QUOTE, QUOTE>>, <<QUOTE, "a", COMMA, "b", QUOTE>>, <<"1">> }

\* Data fields of the tables: a number, an empty field, a quoted string with
\* a comma inside.
TableFields == { <<"0", "7">>, <<>>, <<QUOTE, "x", COMMA, "y", QUOTE>> }

\* Data fields of the one-column texts: one for each way of the type inference,
\* and a field whose quote is never closed.
InferFields ==
  { <<>>, <<"N","a","N">>, <<"n","u","l","l">>, <<"N","U","L","L">>,
    <<"4","2">>, <<" ","0","7"," ">>, <<"-","3">>, <<"+","5">>, <<"0">>,
    InfinityText, <<"-">> \o InfinityText,
    <<"t","r","u","e">>, <<"T","R","U","E">>, <<"F","a","l","s","e">>,
    <<"a","b","c">>, <<"4","2","a">>, <<QUOTE,"t","r","u","e",QUOTE>>,
    <<QUOTE, QUOTE>>, <<"n","a","n","a">>, <<QUOTE, "x", COMMA, "y">> }

TableTexts ==
  { CsvText(<<CsvLine(h)>> \o [k \in 1..Len(d) |-> CsvLine(d[k])]) :
      h \in SeqsOf(HeaderFields, 1, MaxCols),
      d \in SeqsOf(SeqsOf(TableFields, 1, MaxCols), 0, MaxRows) }

InferTexts == { CsvText(<<<<"a">>>> \o d) : d \in SeqsOf(InferFields, 0, MaxRows) }

\* Texts of up to MaxTextLines lines, some of them empty or of blanks only,
\* every line ended by LF or CR LF, the last one possibly by nothing.
MaxTextLines == 3
TextLineChoices == { <<>>, <<" ">>, <<"a">>, <<"0", "7">>, <<CR>> }
LineEnds == { <<LF>>, <<CR, LF>> }
EndedLines == { l \o e : l \in TextLineChoices, e \in LineEnds }
LinedTexts ==
  { join(ls, <<>>) \o last : ls \in SeqsOf(EndedLines, 0, MaxTextLines - 1),
                              last \in EndedLines \cup TextLineChoices }

(***************************************************************************)
(* Inputs of the validator: rows and column descriptors                    *)
(***************************************************************************)
MaxColumnRows == 4
MaxTableRows == 2
MaxDescriptors == 2
MaxMediumRows == 40
MaxBulkRows == 200
MaxBulkBad == 1

AGE == <<"A","g","e">>
OK == <<"O","k">>
NA == <<"N","/","A">>
OLD == <<"o","l","d">>
Types == {"string", "number", "boolean", "date", "mixed"}

\* The row { id: 'row-i', [name]: val }; an undefined val is an absent key.
OneCellRow(i, name, val) ==
  IF val = Undefined THEN <<<<ID, RowId(i)>>>> ELSE <<<<ID, RowId(i)>>, <<name, val>>>>

ColumnCells == {Null, Undefined, Str(<<>>), Num(Finite(30)), Str(NA), Str(OLD), Bool(TRUE)}

\* One descriptor, Age, of any type, over up to MaxColumnRows rows.
ColumnInputs ==
  { [data |-> [i \in 1..Len(cells) |-> OneCellRow(i, AGE, cells[i])],
     columns |-> <<[name |-> AGE, type |-> t]>>] :
      cells \in SeqsOf(ColumnCells, 0, MaxColumnRows), t \in Types }

\* Up to MaxDescriptors descriptors with distinct names, one of them possibly
\* the identifier's, over up to MaxTableRows rows; the identifier of a row is
\* the parser's or a number read from an 'id' column.
TableNames == {AGE, OK, ID}
TableCells == {Num(Finite(30)), Str(NA)}
TableRow(i, c) == <<<<ID, IF c.id THEN Num(Finite(i)) ELSE RowId(i)>>, <<AGE, c.age>>, <<OK, c.ok>>>>
TableRowChoices == [id : BOOLEAN, age : TableCells, ok : TableCells]
Descriptors ==
  { d \in SeqsOf([name : TableNames, type : Types], 1, MaxDescriptors) :
      \A i, j \in 1..Len(d) : i # j => d[i].name # d[j].name }

TableInputs ==
  { [data |-> [i \in 1..Len(c) |-> TableRow(i, c[i])], columns |-> d] :
      c \in SeqsOf(TableRowChoices, 0, MaxTableRows), d \in Descriptors }

\* A number column Age of n rows: rows 1..bad hold a string, the others a
\* number.
NumberColumn(n, bad) ==
  [data |-> [i \in 1..n |-> OneCellRow(i, AGE, IF i <= bad THEN Str(NA) ELSE Num(Finite(30)))],
   columns |-> <<[name |-> AGE, type |-> "number"]>>]

\* Every number of bad rows in a column of middle length, and few bad rows in
\* a long column.
MediumInputs == { NumberColumn(n, bad) : n \in 1..MaxMediumRows, bad \in 0..MaxMediumRows }
BulkInputs == { NumberColumn(n, bad) : n \in 1..MaxBulkRows, bad \in 0..MaxBulkBad }

\* The example of the specification: Age, number, with 30, 'N/A', 25, '', 'old'.
ExampleInput ==
  [data |-> <<OneCellRow(1, AGE, Num(Finite(30))), OneCellRow(2, AGE, Str(NA)),
              OneCellRow(3, AGE, Num(Finite(25))), OneCellRow(4, AGE, Str(<<>>)),
              OneCellRow(5, AGE, Str(OLD))>>,
   columns |-> <<[name |-> AGE, type |-> "number"]>>]

ValidatorInputs ==
  ColumnInputs \cup TableInputs \cup MediumInputs \cup BulkInputs \cup {ExampleInput}

(***************************************************************************)
(* Inputs of exportCSV that a transform returned: rows with or without a   *)
(* _flags map, in either key order, rows with a second column whose name   *)
(* is an array index, and rows that lack the column                        *)
(***************************************************************************)
MaxExportRows == 2

ExportCells ==
  { Null, Num(Finite(7)), Bool(FALSE), Str(<<"x">>), Str(<<"q", QUOTE, "q">>),
    Str(<<"x", COMMA, "y">>), Str(<<"x", LF, "y">>) }
Shapes == {"plain", "flagsLast", "flagsFirst", "indexed", "absent"}

ShapedRow(i, shape, val) ==
  CASE shape = "plain" -> <<<<ID, RowId(i)>>, <<<<"a">>, val>>>>
    [] shape = "flagsLast" -> <<<<ID, RowId(i)>>, <<<<"a">>, val>>, <<FLAGS, FlagsObject>>>>
    [] shape = "flagsFirst" -> <<<<ID, RowId(i)>>, <<FLAGS, FlagsObject>>, <<<<"a">>, val>>>>
    [] shape = "indexed" -> <<<<ID, RowId(i)>>, <<<<"a">>, val>>, <<<<"1">>, Bool(TRUE)>>>>
    [] shape = "absent" -> <<<<ID, RowId(i)>>>>

TransformedRows ==
  { [i \in 1..Len(c) |-> ShapedRow(i, c[i].shape, c[i].val)] :
      c \in SeqsOf([shape : Shapes, val : ExportCells], 0, MaxExportRows) }

NoResult == [isValid |-> TRUE, score |-> 0, errors |-> <<>>, totalRowsChecked |-> 0]
NoParse == [headers |-> <<>>, data |-> <<>>]

\* The host's state at its start: useState<AppState>({ ... })
HostIdle ==
  /\ cleanedData = <<>>
  /\ actions = <<>>
  /\ isProcessing = FALSE
  /\ nuclearMode = FALSE
  /\ agentLogs = <<>>
  /\ validationResult = <<>>
  /\ isValidationModalOpen = FALSE
  /\ viewMode = "cleaned"
  /\ calls = <<>>
  /\ stage = "idle"
  /\ rawData = <<>>
  /\ analysis = <<>>
  /\ issued = 0
  /\ loaded = 0

(***************************************************************************)
(* What a call leaves of its arguments.  exportCSV reads data[0] and       *)
(* row[header] and validateDataset reads row[col.name], col.name and       *)
(* col.type; neither assigns to a row, to the row list or to a descriptor. *)
(***************************************************************************)
\* RowsAfterExport when the identifier is deleted from the rows (delete
\* row.id) in place of the filter of the keys.
RowsAfterExportIdDeleted(rows) ==
  LET NotId(p) == p[1] # ID IN [r \in 1..Len(rows) |-> SelectSeq(rows[r], NotId)]

\* The rows after exportCSV(rows)
RowsAfterExport(rows) == rows

\* The rows and the descriptors after validateDataset(rows, cols)
RowsAfterValidate(rows) == rows
ColumnsAfterValidate(cols) == cols

(***************************************************************************)
(* Operations                                                              *)
(***************************************************************************)
\* const { headers, data } = parseCSV(content)
Parse ==
  /\ pc = "text"
  /\ LET parsed == parseCSV(content)
     IN  /\ headers' = parsed.headers
         /\ data' = parsed.data
  /\ pc' = "rows"
  /\ UNCHANGED <<content, columns, result, validCellCount, totalCellCount, csv, reparsed>>
  /\ UNCHANGED hostVars

\* const csv = exportCSV(data)
Export ==
  /\ pc \in {"rows", "validated", "revalidated"}
  /\ csv' = exportCSV(data)
  /\ data' = RowsAfterExport(data)
  /\ pc' = "exported"
  /\ UNCHANGED <<content, headers, columns, result, validCellCount,
                 totalCellCount, reparsed>>
  /\ UNCHANGED hostVars

\* parseCSV(csv): the exported text read back
Reparse ==
  /\ pc = "exported"
  /\ reparsed' = parseCSV(csv)
  /\ pc' = "reparsed"
  /\ UNCHANGED <<content, headers, data, columns, result, validCellCount,
                 totalCellCount, csv>>
  /\ UNCHANGED hostVars

\* const validationResult = validateDataset(data, columns)
Validate ==
  /\ pc = "rows"
  /\ LET r == validateDataset(data, columns)
     IN  /\ result' = [isValid |-> r.isValid, score |-> r.score, errors |-> r.errors,
                       totalRowsChecked |-> r.totalRowsChecked]
         /\ validCellCount' = r.validCellCount
         /\ totalCellCount' = r.totalCellCount
  /\ data' = RowsAfterValidate(data)
  /\ columns' = ColumnsAfterValidate(columns)
  /\ pc' = "validated"
  /\ UNCHANGED <<content, headers, csv, reparsed>>
  /\ UNCHANGED hostVars

\* validateDataset(data, columns) called again on the same rows and
\* descriptors, after a call that has returned
Revalidate ==
  /\ pc \in {"validated", "revalidated"}
  /\ LET r == validateDatasetAfter(data, columns, validCellCount, totalCellCount)
     IN  /\ result' = [isValid |-> r.isValid, score |-> r.score, errors |-> r.errors,
                       totalRowsChecked |-> r.totalRowsChecked]
         /\ validCellCount' = r.validCellCount
         /\ totalCellCount' = r.totalCellCount
  /\ data' = RowsAfterValidate(data)
  /\ columns' = ColumnsAfterValidate(columns)
  /\ pc' = "revalidated"
  /\ UNCHANGED <<content, headers, csv, reparsed>>
  /\ UNCHANGED hostVars

(***************************************************************************)
(* The transform and repair services (geminiService.ts).  An answer of the *)
(* collaborator is a rejected request, a text that JSON.parse does not     *)
(* take, a JSON value that is no array, or an array.                       *)
(***************************************************************************)
Rejected == [kind |-> "rejected"]
Unparseable == [kind |-> "unparseable"]
NotArray == [kind |-> "object"]
ArrayOf(items) == [kind |-> "array", items |-> items]

\* The try block throws: generateContent rejects or JSON.parse throws
Throws(answer) == answer.kind \in {"rejected", "unparseable"}

\* Array.isArray(cleaned) ? cleaned : data
ArrayOrData(answer, data_) == IF answer.kind = "array" THEN answer.items ELSE data_

\* What a service returns to its caller: rows, or a thrown error
Returned(rows) == [threw |-> FALSE, rows |-> rows]
Thrown == [threw |-> TRUE, rows |-> <<>>]

\* JSON.stringify of a cell: a number that is not finite is written as null
JsonValue(val) == IF val.kind = "number" /\ val.inf # 0 THEN Null ELSE val

\* The signature of a row: its entries without 'id' and '_flags', sorted by
\* key; keys being unique, the set of the entries stands for the sorted list.
Signature(row) ==
  {<<row[i][1], JsonValue(row[i][2])>> : i \in {j \in 1..Len(row) : row[j][1] \notin {ID, FLAGS}}}

\* data.filter(row => { if (seen.has(signature)) return false; seen.add(...) })
RECURSIVE RemoveDuplicatesFrom(_, _, _)
RemoveDuplicatesFrom(data_, i, seen) ==
  IF i > Len(data_) THEN <<>>
  ELSE IF Signature(data_[i]) \in seen THEN RemoveDuplicatesFrom(data_, i + 1, seen)
  ELSE <<data_[i]>> \o RemoveDuplicatesFrom(data_, i + 1, seen \cup {Signature(data_[i])})

\* data.filter(row => !removeSet.has(row.id))
RemoveIds(data_, ids) ==
  LET Kept(row) == \A k \in 1..Len(ids) : Get(row, ID) # ids[k]
  IN  SelectSeq(data_, Kept)

\* cleanDataBatch(data, action): answers[1] is the answer to its first
\* request, answers[2] the answer to the second request that 'remove_outliers'
\* makes when the first gave no array.  Every catch block returns data.
cleanDataBatch(data_, action, answers) ==
  IF action.type = "remove_duplicates" THEN Returned(RemoveDuplicatesFrom(data_, 1, {}))
  ELSE IF action.type = "remove_outliers" /\ answers[1].kind = "array"
  THEN Returned(RemoveIds(data_, answers[1].items))
  ELSE LET answer == IF action.type = "remove_outliers" THEN answers[2] ELSE answers[1]
       IN  IF Throws(answer) THEN Returned(data_)
           ELSE Returned(ArrayOrData(answer, data_))

\* nuclearClean(data, columns): catch (error) { throw error }
nuclearClean(data_, answer) ==
  IF Throws(answer) THEN Thrown ELSE Returned(ArrayOrData(answer, data_))

\* fixValidationErrors(data, errors): catch (error) { ...; throw error }
fixValidationErrors(data_, answer) ==
  IF Throws(answer) THEN Thrown ELSE Returned(ArrayOrData(answer, data_))

\* The request whose answer decides the call: the second one of a
\* 'remove_outliers' action whose first request gave no array
LastAnswer(call, answers) ==
  IF call.handler = "execute" /\ call.action.type = "remove_outliers"
       /\ answers[1].kind # "array"
  THEN answers[2] ELSE answers[1]

\* The call asks the collaborator at all ('remove_duplicates' runs locally)
AsksCollaborator(call) ==
  ~(call.handler = "execute" /\ call.action.type = "remove_duplicates")

(***************************************************************************)
(* The host application (App.tsx) after an upload.  A handler that awaits  *)
(* a service runs in three steps: its start (up to the await), the answer  *)
(* of the collaborator that settles the service's promise, and its end     *)
(* (after the await, or its catch block).                                  *)
(***************************************************************************)
Log(agent, level) == [agent |-> agent, level |-> level]

coreVars == <<content, headers, data, columns, result, validCellCount,
              totalCellCount, csv, reparsed, pc>>

\* A call in flight: the handler, what its closure holds of the state it
\* started in (the action, state.cleanedData or the parsed rows,
\* state.validationResult.errors, state.analysis), its number, the number
\* of the dataset load it was started in, and, once the service's promise
\* is settled, what the service gave
Call(handler, action, rows, errors) ==
  [handler |-> handler, action |-> action, data |-> rows, errors |-> errors,
   analysis |-> analysis, no |-> issued + 1, load |-> loaded,
   settled |-> <<>>, failed |-> FALSE]

NoAction == [id |-> "", type |-> "", status |-> ""]

Without(seq, k) == SubSeq(seq, 1, k - 1) \o SubSeq(seq, k + 1, Len(seq))

\* The uploaded rows, and the answers of the collaborator to a request for
\* rows and to the request for the identifiers of the outliers
MaxLogs == 7
MaxCalls == 3
ColumnA == <<"a">>
UploadedRows ==
  << <<<<ID, RowId(1)>>, <<ColumnA, Num(Finite(30))>>>>,
     <<<<ID, RowId(2)>>, <<ColumnA, Str(NA)>>>>,
     <<<<ID, RowId(3)>>, <<ColumnA, Num(Finite(30))>>>> >>
RepairedRows ==
  << UploadedRows[1],
     <<<<ID, RowId(2)>>, <<ColumnA, Null>>, <<FLAGS, FlagsObject>>>>,
     UploadedRows[3] >>
\* Rows as the collaborator is free to write them: a row without 'id', two
\* rows with one 'id', a row with a key the other row has not
RowsWithoutId == << <<<<ColumnA, Num(Finite(30))>>>> >>
RowsOfOneId == << UploadedRows[1], <<<<ID, RowId(1)>>, <<ColumnA, Null>>>> >>
RowsOfMixedKeys ==
  << UploadedRows[1], <<<<ID, RowId(2)>>, <<ColumnA, Null>>, <<<<"b">>, Str(<<"x">>)>>>> >>
Failures == {Rejected, Unparseable, NotArray}
RowAnswers ==
  {ArrayOf(<<>>), ArrayOf(RepairedRows), ArrayOf(SubSeq(RepairedRows, 1, 2)),
   ArrayOf(RowsWithoutId), ArrayOf(RowsOfOneId), ArrayOf(RowsOfMixedKeys)}
IdAnswers == {ArrayOf(<<>>), ArrayOf(<<RowId(2)>>)}
UploadedActions ==
  << [id |-> "1", type |-> "impute", status |-> "pending"],
     [id |-> "2", type |-> "remove_duplicates", status |-> "pending"],
     [id |-> "3", type |-> "standardize_format", status |-> "pending"],
     [id |-> "4", type |-> "remove_outliers", status |-> "pending"],
     [id |-> "5", type |-> "fix_typos", status |-> "pending"] >>
UploadedColumns == <<[name |-> ColumnA, type |-> "number"]>>

\* The answers a call for rows can get: <<first, second>>
AnswersTo(call) ==
  IF ~AsksCollaborator(call) THEN {<<Rejected, Rejected>>}
  ELSE IF call.handler = "execute" /\ call.action.type = "remove_outliers"
  THEN (Failures \cup IdAnswers) \X (Failures \cup RowAnswers)
  ELSE (Failures \cup RowAnswers) \X {Rejected}

\* The sidebar and the buttons of the header are rendered
CommandCenter == stage = "command_center" /\ analysis # <<>>

\* The validation modal is rendered: if (!isOpen || !result) return null
ModalShown == isValidationModalOpen /\ validationResult # <<>>

\* The ValidationResult as the state holds it
Shown(r) ==
  <<[isValid |-> r.isValid, score |-> r.score, errors |-> r.errors,
     totalRowsChecked |-> r.totalRowsChecked]>>

\* handleExecuteAction(actionId), up to the await; the button of a completed
\* action is disabled, and every button while isProcessing
ExecuteActionStart ==
  /\ pc = "host"
  /\ CommandCenter
  /\ ~isProcessing
  /\ Len(agentLogs) < MaxLogs
  /\ issued < MaxCalls
  /\ \E i \in 1..Len(actions) :
       /\ actions[i].status # "completed"
       /\ calls' = Append(calls, Call("execute", actions[i], cleanedData, <<>>))
  /\ isProcessing' = TRUE
  /\ agentLogs' = Append(agentLogs, Log("EXECUTIONER", "warn"))
  /\ issued' = issued + 1
  /\ UNCHANGED <<cleanedData, actions, nuclearMode, validationResult,
                 isValidationModalOpen, viewMode, stage, rawData, analysis, loaded>>
  /\ UNCHANGED coreVars

\* handleNuclearClean(), confirmed, up to the await
NuclearCleanStart ==
  /\ pc = "host"
  /\ CommandCenter
  /\ ~isProcessing
  /\ Len(agentLogs) < MaxLogs
  /\ issued < MaxCalls
  /\ calls' = Append(calls, Call("nuclear", NoAction, cleanedData, <<>>))
  /\ isProcessing' = TRUE
  /\ nuclearMode' = TRUE
  /\ agentLogs' = agentLogs \o <<Log("SYSTEM", "error"), Log("STRATEGIST", "warn")>>
  /\ issued' = issued + 1
  /\ UNCHANGED <<cleanedData, actions, validationResult, isValidationModalOpen,
                 viewMode, stage, rawData, analysis, loaded>>
  /\ UNCHANGED coreVars

\* handleValidateAndExport(); the EXPORT button is never disabled
ValidateAndExport ==
  /\ pc = "host"
  /\ CommandCenter
  /\ Len(agentLogs) < MaxLogs
  /\ agentLogs' = Append(agentLogs, Log("AUDITOR", "info"))
  /\ validationResult' = Shown(validateDataset(cleanedData, analysis[1].columns))
  /\ isValidationModalOpen' = TRUE
  /\ cleanedData' = RowsAfterValidate(cleanedData)
  /\ analysis' = <<[analysis[1] EXCEPT !.columns = ColumnsAfterValidate(@)]>>
  /\ UNCHANGED <<actions, isProcessing, nuclearMode, viewMode, calls, stage, rawData,
                 issued, loaded>>
  /\ UNCHANGED coreVars

\* handleAutoRepair(), up to the await; its button is in the validation
\* modal, rendered when the result is not valid
AutoRepairStart ==
  /\ pc = "host"
  /\ ModalShown
  /\ ~isProcessing
  /\ Len(agentLogs) < MaxLogs
  /\ issued < MaxCalls
  /\ ~validationResult[1].isValid
  /\ Len(validationResult[1].errors) # 0
  /\ calls' = Append(calls, Call("repair", NoAction, cleanedData,
                                 validationResult[1].errors))
  /\ isProcessing' = TRUE
  /\ agentLogs' = Append(agentLogs, Log("AUDITOR", "warn"))
  /\ issued' = issued + 1
  /\ UNCHANGED <<cleanedData, actions, nuclearMode, validationResult,
                 isValidationModalOpen, viewMode, stage, rawData, analysis, loaded>>
  /\ UNCHANGED coreVars

\* The texts that are uploaded, and the analysis the collaborator writes:
\* its actions come with whatever status the collaborator gave them
UploadTexts ==
  { <<"a", LF, "3", "0", LF, "N", "/", "A", LF, "3", "0">>,
    <<"a", LF, "7">> }
AnalysisActions ==
  << [id |-> "1", type |-> "impute", status |-> "completed"],
     [id |-> "2", type |-> "remove_duplicates", status |-> ""] >>
AnalysisOf(healthy, acts) ==
  [kind |-> "analysis", healthy |-> healthy, columns |-> UploadedColumns,
   recommendedActions |-> acts]
AnalysisAnswers == {Rejected, Unparseable, AnalysisOf(TRUE, AnalysisActions)}

\* result.recommendedActions?.map(a => ({ ...a, status: 'pending' })) || []
Pending(acts) == [i \in 1..Len(acts) |-> [acts[i] EXCEPT !.status = "pending"]]

\* analyzeDatasetWithGemini(data, headers): every error is thrown again
Analysed(a) == [threw |-> FALSE, analysis |-> a]
analyzeDatasetWithGemini(answer) ==
  IF Throws(answer) THEN Thrown
  ELSE Analysed([answer EXCEPT !.recommendedActions = Pending(@)])

\* What the argument of a service is after the service has read it:
\* JSON.stringify(data) and data.filter(...) build new values
ArgumentAfterServiceFilteredInPlace(rows) == RemoveDuplicatesFrom(rows, 1, {})
ArgumentAfterService(rows) == rows

\* handleFileUpload(content, fileName), up to the await; the upload zone is
\* rendered in stage 'idle'
FileUploadStart ==
  /\ pc = "host"
  /\ stage = "idle"
  /\ issued < MaxCalls
  /\ \E text \in UploadTexts :
       calls' = Append(calls, Call("upload", NoAction, parseCSV(text).data, <<>>))
  /\ stage' = "analyzing"
  /\ rawData' = <<>>
  /\ cleanedData' = <<>>
  /\ analysis' = <<>>
  /\ actions' = <<>>
  /\ isProcessing' = TRUE
  /\ agentLogs' = <<Log("SYSTEM", "info"), Log("SYSTEM", "info")>>
  /\ isValidationModalOpen' = FALSE
  /\ nuclearMode' = FALSE
  /\ validationResult' = <<>>
  /\ issued' = issued + 1
  /\ loaded' = 0
  /\ UNCHANGED viewMode
  /\ UNCHANGED coreVars

\* handleReset(): the logo and the NEW PROJECT button
Reset ==
  /\ pc = "host"
  /\ stage' = "idle"
  /\ rawData' = <<>>
  /\ cleanedData' = <<>>
  /\ analysis' = <<>>
  /\ actions' = <<>>
  /\ isProcessing' = FALSE
  /\ agentLogs' = <<>>
  /\ isValidationModalOpen' = FALSE
  /\ nuclearMode' = FALSE
  /\ validationResult' = <<>>
  /\ loaded' = 0
  /\ UNCHANGED <<viewMode, calls, issued>>
  /\ UNCHANGED coreVars

\* handleConfirmExport(): the button of the validation modal
ConfirmExport ==
  /\ pc = "host"
  /\ ModalShown
  /\ Len(agentLogs) < MaxLogs
  /\ agentLogs' = Append(agentLogs, Log("SYSTEM", "success"))
  /\ csv' = exportCSV(cleanedData)
  /\ cleanedData' = RowsAfterExport(cleanedData)
  /\ isValidationModalOpen' = FALSE
  /\ UNCHANGED <<actions, isProcessing, nuclearMode, validationResult, viewMode, calls,
                 stage, rawData, analysis, issued, loaded>>
  /\ UNCHANGED <<content, headers, data, columns, result, validCellCount,
                 totalCellCount, reparsed, pc>>

\* onClose of the validation modal
CloseModal ==
  /\ pc = "host"
  /\ ModalShown
  /\ isValidationModalOpen' = FALSE
  /\ UNCHANGED <<cleanedData, actions, isProcessing, nuclearMode, agentLogs,
                 validationResult, viewMode, calls, stage, rawData, analysis,
                 issued, loaded>>
  /\ UNCHANGED coreVars

\* What the service of a call gives for the answers of the collaborator
Given(call, answers) ==
  CASE call.handler = "execute" -> cleanDataBatch(call.data, call.action, answers)
    [] call.handler = "nuclear" -> nuclearClean(call.data, answers[1])
    [] call.handler = "repair" -> fixValidationErrors(call.data, answers[1])

\* The rows of the state that are the argument of the call, after the service
SharedWith(call, rows) == IF rows = call.data THEN ArgumentAfterService(rows) ELSE rows

\* The collaborator answers and the promise of the service is settled.
CollaboratorAnswers ==
  /\ pc = "host"
  /\ \E k \in 1..Len(calls) :
       /\ calls[k].settled = <<>>
       /\ calls[k].handler # "upload"
       /\ \E answers \in AnswersTo(calls[k]) :
            calls' = [calls EXCEPT ![k].settled = <<Given(calls[k], answers)>>,
                                   ![k].failed = AsksCollaborator(calls[k])
                                     /\ LastAnswer(calls[k], answers).kind # "array"]
       /\ rawData' = SharedWith(calls[k], rawData)
       /\ cleanedData' = SharedWith(calls[k], cleanedData)
  /\ UNCHANGED <<actions, isProcessing, nuclearMode, agentLogs, validationResult,
                 isValidationModalOpen, viewMode, stage, analysis, issued, loaded>>
  /\ UNCHANGED coreVars

\* The collaborator answers the request for the analysis
AnalysisAnswered ==
  /\ pc = "host"
  /\ \E k \in 1..Len(calls) :
       /\ calls[k].settled = <<>>
       /\ calls[k].handler = "upload"
       /\ \E answer \in AnalysisAnswers :
            calls' = [calls EXCEPT ![k].settled = <<analyzeDatasetWithGemini(answer)>>,
                                   ![k].failed = Throws(answer)]
  /\ UNCHANGED <<cleanedData, actions, isProcessing, nuclearMode, agentLogs,
                 validationResult, isValidationModalOpen, viewMode, stage, rawData,
                 analysis, issued, loaded>>
  /\ UNCHANGED coreVars

\* A call whose promise is settled and whose handler resumes
Resumes(k, handler) ==
  /\ k \in 1..Len(calls)
  /\ calls[k].handler = handler
  /\ calls[k].settled # <<>>

\* prev.actions.map(a => a.id === actionId ? { ...a, status: 'completed' } : a)
Completed(acts, actionId) ==
  [i \in 1..Len(acts) |->
     IF acts[i].id = actionId THEN [acts[i] EXCEPT !.status = "completed"] ELSE acts[i]]

\* prev.actions.map(a => ({ ...a, status: 'completed' }))
AllCompleted(acts) == [i \in 1..Len(acts) |-> [acts[i] EXCEPT !.status = "completed"]]

\* setState(prev => ({ ...prev, isProcessing: false })) of a catch block
ProcessingAfterCatchKept(processing) == processing
ProcessingAfterCatch(processing) == FALSE

\* handleFileUpload after the await
FileUploadFinish ==
  /\ pc = "host"
  /\ \E k \in 1..Len(calls) :
       /\ Resumes(k, "upload")
       /\ LET given == calls[k].settled[1]
          IN  IF ~given.threw
              THEN /\ agentLogs' = Append(agentLogs,
                        Log("STRATEGIST", IF given.analysis.healthy THEN "info" ELSE "error"))
                   /\ stage' = "command_center"
                   /\ rawData' = calls[k].data
                   /\ cleanedData' = calls[k].data
                   /\ analysis' = <<given.analysis>>
                   /\ actions' = given.analysis.recommendedActions
                   /\ isProcessing' = FALSE
                   /\ loaded' = calls[k].no
              ELSE /\ agentLogs' = Append(agentLogs, Log("SYSTEM", "error"))
                   /\ stage' = "idle"
                   /\ isProcessing' = ProcessingAfterCatch(isProcessing)
                   /\ UNCHANGED <<rawData, cleanedData, analysis, actions, loaded>>
       /\ calls' = Without(calls, k)
  /\ UNCHANGED <<nuclearMode, validationResult, isValidationModalOpen, viewMode,
                 issued>>
  /\ UNCHANGED coreVars

\* handleExecuteAction after the await: the try block goes on, or the catch
\* block runs.  state.viewMode is not the viewMode of the table.
ExecuteActionFinish ==
  /\ pc = "host"
  /\ \E k \in 1..Len(calls) :
       /\ Resumes(k, "execute")
       /\ LET given == calls[k].settled[1]
          IN  IF ~given.threw
              THEN /\ agentLogs' = Append(agentLogs, Log("EXECUTIONER", "success"))
                   /\ cleanedData' = given.rows
                   /\ actions' = Completed(actions, calls[k].action.id)
                   /\ isProcessing' = FALSE
              ELSE /\ agentLogs' = Append(agentLogs, Log("EXECUTIONER", "error"))
                   /\ isProcessing' = ProcessingAfterCatch(isProcessing)
                   /\ UNCHANGED <<cleanedData, actions>>
       /\ calls' = Without(calls, k)
  /\ UNCHANGED <<nuclearMode, validationResult, isValidationModalOpen, viewMode,
                 stage, rawData, analysis, issued, loaded>>
  /\ UNCHANGED coreVars

\* handleNuclearClean after the await
NuclearCleanFinish ==
  /\ pc = "host"
  /\ \E k \in 1..Len(calls) :
       /\ Resumes(k, "nuclear")
       /\ LET given == calls[k].settled[1]
          IN  IF ~given.threw
              THEN /\ agentLogs' = agentLogs \o <<Log("EXECUTIONER", "success"),
                                                  Log("AUDITOR", "info")>>
                   /\ cleanedData' = given.rows
                   /\ actions' = AllCompleted(actions)
                   /\ isProcessing' = FALSE
                   /\ UNCHANGED nuclearMode
              ELSE /\ agentLogs' = Append(agentLogs, Log("SYSTEM", "error"))
                   /\ nuclearMode' = FALSE
                   /\ isProcessing' = ProcessingAfterCatch(isProcessing)
                   /\ UNCHANGED <<cleanedData, actions>>
       /\ calls' = Without(calls, k)
  /\ UNCHANGED <<validationResult, isValidationModalOpen, viewMode, stage, rawData,
                 analysis, issued, loaded>>
  /\ UNCHANGED coreVars

\* handleAutoRepair after the await
AutoRepairFinish ==
  /\ pc = "host"
  /\ \E k \in 1..Len(calls) :
       /\ Resumes(k, "repair")
       /\ LET given == calls[k].settled[1]
          IN  IF ~given.threw /\ calls[k].analysis # <<>>
              THEN /\ agentLogs' = Append(agentLogs, Log("AUDITOR", "success"))
                   /\ cleanedData' = given.rows
                   /\ validationResult' =
                        Shown(validateDataset(given.rows, calls[k].analysis[1].columns))
                   /\ isProcessing' = FALSE
              ELSE /\ agentLogs' = Append(agentLogs, Log("AUDITOR", "error"))
                   /\ isProcessing' = ProcessingAfterCatch(isProcessing)
                   /\ UNCHANGED <<cleanedData, validationResult>>
       /\ calls' = Without(calls, k)
  /\ UNCHANGED <<actions, nuclearMode, isValidationModalOpen, viewMode, stage, rawData,
                 analysis, issued, loaded>>
  /\ UNCHANGED coreVars

(***************************************************************************)
(* The codec on CSV text: parse, export, parse again                       *)
(***************************************************************************)
InitCodec ==
  /\ content \in TableTexts \cup InferTexts \cup LinedTexts
  /\ headers = <<>>
  /\ data = <<>>
  /\ columns = <<>>
  /\ result = NoResult
  /\ validCellCount = 0
  /\ totalCellCount = 0
  /\ csv = <<>>
  /\ reparsed = NoParse
  /\ pc = "text"
  /\ HostIdle

NextCodec == Parse \/ Export \/ Reparse

SpecCodec == InitCodec /\ [][NextCodec]_vars

(***************************************************************************)
(* The validator on rows and column descriptors                            *)
(***************************************************************************)
InitValidate ==
  /\ \E in \in ValidatorInputs :
       /\ data = in.data
       /\ columns = in.columns
  /\ content = <<>>
  /\ headers = <<>>
  /\ result = NoResult
  /\ validCellCount = 0
  /\ totalCellCount = 0
  /\ csv = <<>>
  /\ reparsed = NoParse
  /\ pc = "rows"
  /\ HostIdle

NextValidate == Validate \/ Revalidate

SpecValidate == InitValidate /\ [][NextValidate]_vars

(***************************************************************************)
(* The codec on the rows of a transform: export, parse                     *)
(***************************************************************************)
InitExport ==
  /\ data \in TransformedRows
  /\ content = <<>>
  /\ headers = <<>>
  /\ columns = <<>>
  /\ result = NoResult
  /\ validCellCount = 0
  /\ totalCellCount = 0
  /\ csv = <<>>
  /\ reparsed = NoParse
  /\ pc = "rows"
  /\ HostIdle

NextExport == Export \/ Reparse

SpecExport == InitExport /\ [][NextExport]_vars

(***************************************************************************)
(* The pipeline on a one-column text and a descriptor of its column:       *)
(* parse, validate (any number of times), export, parse again              *)
(***************************************************************************)
PipelineColumns == { <<[name |-> <<"a">>, type |-> t]>> : t \in Types }

InitPipeline ==
  /\ content \in InferTexts
  /\ columns \in PipelineColumns
  /\ headers = <<>>
  /\ data = <<>>
  /\ result = NoResult
  /\ validCellCount = 0
  /\ totalCellCount = 0
  /\ csv = <<>>
  /\ reparsed = NoParse
  /\ pc = "text"
  /\ HostIdle

NextPipeline == Parse \/ Validate \/ Revalidate \/ Export \/ Reparse

SpecPipeline == InitPipeline /\ [][NextPipeline]_vars

(***************************************************************************)
(* The host after an upload: the actions of the sidebar, the nuclear       *)
(* option, validation and repair, with the answers of the collaborator     *)
(***************************************************************************)
InitHost ==
  /\ content = <<>>
  /\ headers = <<ColumnA>>
  /\ data = UploadedRows
  /\ columns = UploadedColumns
  /\ result = NoResult
  /\ validCellCount = 0
  /\ totalCellCount = 0
  /\ csv = <<>>
  /\ reparsed = NoParse
  /\ pc = "host"
  /\ cleanedData = UploadedRows
  /\ actions = UploadedActions
  /\ isProcessing = FALSE
  /\ nuclearMode = FALSE
  /\ agentLogs = <<Log("SYSTEM", "info"), Log("SYSTEM", "info"), Log("STRATEGIST", "info")>>
  /\ validationResult = <<>>
  /\ isValidationModalOpen = FALSE
  /\ viewMode = "cleaned"
  /\ calls = <<>>
  /\ stage = "command_center"
  /\ rawData = UploadedRows
  /\ analysis = <<AnalysisOf(TRUE, UploadedActions)>>
  /\ issued = 1
  /\ loaded = 1

NextHost ==
  \/ ExecuteActionStart
  \/ ExecuteActionFinish
  \/ NuclearCleanStart
  \/ NuclearCleanFinish
  \/ ValidateAndExport
  \/ AutoRepairStart
  \/ AutoRepairFinish
  \/ CollaboratorAnswers

SpecHost == InitHost /\ [][NextHost]_vars

(***************************************************************************)
(* A session of the host from its start: uploads, resets, the actions on   *)
(* the loaded dataset, the modal, and every order in which the answers of  *)
(* the collaborator arrive                                                 *)
(***************************************************************************)
InitSession ==
  /\ content = <<>>
  /\ headers = <<>>
  /\ data = <<>>
  /\ columns = <<>>
  /\ result = NoResult
  /\ validCellCount = 0
  /\ totalCellCount = 0
  /\ csv = <<>>
  /\ reparsed = NoParse
  /\ pc = "host"
  /\ HostIdle

NextSession ==
  \/ FileUploadStart
  \/ AnalysisAnswered
  \/ FileUploadFinish
  \/ Reset
  \/ ExecuteActionStart
  \/ ExecuteActionFinish
  \/ NuclearCleanStart
  \/ NuclearCleanFinish
  \/ ValidateAndExport
  \/ AutoRepairStart
  \/ AutoRepairFinish
  \/ CollaboratorAnswers
  \/ ConfirmExport
  \/ CloseModal

SpecSession == InitSession /\ [][NextSession]_vars

\* The collaborator answers every request, and a handler whose promise is
\* settled resumes
\* (a step that takes a settled call out of calls is the end of a handler,
\* and the end of a handler is enabled whenever a call is settled)
Answered == AnalysisAnswered \/ CollaboratorAnswers
Resumed == \E k \in 1..Len(calls) : calls[k].settled # <<>> /\ calls' = Without(calls, k)
SessionFairness == WF_vars(Answered) /\ WF_calls(Resumed)

\* The host after a first upload whose analysis failed: 'idle' again, with
\* the three log entries of that upload
InitAfterFailedUpload ==
  /\ content = <<>>
  /\ headers = <<>>
  /\ data = <<>>
  /\ columns = <<>>
  /\ result = NoResult
  /\ validCellCount = 0
  /\ totalCellCount = 0
  /\ csv = <<>>
  /\ reparsed = NoParse
  /\ pc = "host"
  /\ cleanedData = <<>>
  /\ actions = <<>>
  /\ isProcessing = FALSE
  /\ nuclearMode = FALSE
  /\ agentLogs = <<Log("SYSTEM", "info"), Log("SYSTEM", "info"), Log("SYSTEM", "error")>>
  /\ validationResult = <<>>
  /\ isValidationModalOpen = FALSE
  /\ viewMode = "cleaned"
  /\ calls = <<>>
  /\ stage = "idle"
  /\ rawData = <<>>
  /\ analysis = <<>>
  /\ issued = 1
  /\ loaded = 0

SpecSessionFair == InitAfterFailedUpload /\ [][NextSession]_vars /\ SessionFairness

(***************************************************************************)
(* The local action 'remove_duplicates' on rows of two columns, applied    *)
(* once and once more to its result                                        *)
(***************************************************************************)
MaxDuplicateRows == 3
ColumnB == <<"b">>
DuplicateContents ==
  { <<<<ColumnA, Num(Finite(30))>>, <<ColumnB, Null>>>>,
    <<<<ColumnB, Null>>, <<ColumnA, Num(Finite(30))>>>>,
    <<<<ColumnA, Num(Finite(30))>>, <<ColumnB, Null>>, <<FLAGS, FlagsObject>>>>,
    <<<<ColumnA, Str(<<"3", "0">>)>>, <<ColumnB, Null>>>>,
    <<<<ColumnA, Num(Infinite(1))>>, <<ColumnB, Null>>>>,
    <<<<ColumnA, Null>>, <<ColumnB, Null>>>>,
    <<<<ColumnA, Num(Finite(30))>>>> }

\* Rows with the identifiers of their positions
Numbered(contents) ==
  [i \in 1..Len(contents) |-> <<<<ID, RowId(i)>>>> \o contents[i]]
DuplicateInputs == { Numbered(c) : c \in SeqsOf(DuplicateContents, 0, MaxDuplicateRows) }

RemoveDuplicatesAction == [id |-> "2", type |-> "remove_duplicates", status |-> "pending"]

InitDuplicates ==
  /\ content = <<>>
  /\ headers = <<>>
  /\ data \in DuplicateInputs
  /\ columns = <<>>
  /\ result = NoResult
  /\ validCellCount = 0
  /\ totalCellCount = 0
  /\ csv = <<>>
  /\ reparsed = NoParse
  /\ pc = "rows"
  /\ cleanedData = data
  /\ actions = <<RemoveDuplicatesAction>>
  /\ isProcessing = FALSE
  /\ nuclearMode = FALSE
  /\ agentLogs = <<>>
  /\ validationResult = <<>>
  /\ isValidationModalOpen = FALSE
  /\ viewMode = "cleaned"
  /\ calls = <<>>
  /\ stage = "command_center"
  /\ rawData = data
  /\ analysis = <<>>
  /\ issued = 0
  /\ loaded = 0

\* cleanDataBatch(cleanedData, action) for the action 'remove_duplicates'
RemoveDuplicates ==
  /\ pc \in {"rows", "deduplicated"}
  /\ cleanedData' =
       cleanDataBatch(cleanedData, RemoveDuplicatesAction, <<Rejected, Rejected>>).rows
  /\ pc' = IF pc = "rows" THEN "deduplicated" ELSE "deduplicated again"
  /\ UNCHANGED <<content, headers, data, columns, result, validCellCount,
                 totalCellCount, csv, reparsed>>
  /\ UNCHANGED <<actions, isProcessing, nuclearMode, agentLogs, validationResult,
                 isValidationModalOpen, viewMode, calls, stage, rawData, analysis,
                 issued, loaded>>

NextDuplicates == RemoveDuplicates

SpecDuplicates == InitDuplicates /\ [][NextDuplicates]_vars

(***************************************************************************)
(* Properties of the codec                                                 *)
(***************************************************************************)
Parsed == pc \in {"rows", "exported", "reparsed"} /\ content # <<>>

\* The non-blank lines of the text, the data lines among them, and the data
\* lines that have as many fields as the header line.
NonBlankLines == SelectSeq(SplitLines(content), NotBlank)
DataLines == IF NonBlankLines = <<>> THEN <<>> ELSE Tail(NonBlankLines)
MatchesHeader(line) == Len(parseLine(line)) = Len(parseLine(NonBlankLines[1]))
MatchingLines == SelectSeq(DataLines, MatchesHeader)

KeysOf(row) == {row[i][1] : i \in 1..Len(row)}
TypedKinds == {"number", "boolean", "null"}

\* C1: parsing the export of a parsed dataset gives as many rows as the
\* dataset has, and every number, boolean or null cell of the dataset is found
\* with the same value and type in the row at the same position, under the
\* same column.
RoundTripKeepsTypedCells ==
  pc = "reparsed" /\ content # <<>> =>
    /\ Len(reparsed.data) = Len(data)
    /\ \A r \in 1..Len(data) : \A i \in 1..Len(data[r]) :
         data[r][i][2].kind \in TypedKinds =>
           Get(reparsed.data[r], data[r][i][1]) = data[r][i][2]

\* C2: the rows parseCSV returns are as many as the non-blank data lines whose
\* field count equals the header's, and every row has exactly the header's
\* columns (and the identifier): no line of another length gives a row.
SkipOnMismatch ==
  Parsed =>
    /\ Len(data) = Len(MatchingLines)
    /\ \A r \in 1..Len(data) :
         KeysOf(data[r]) = {ID} \cup {headers[j] : j \in 1..Len(headers)}

\* C2 witness: one data line was taken as a row and another one was skipped.
SkipOnMismatchSeen ==
  /\ Parsed
  /\ pc = "rows"
  /\ Len(data) >= 1
  /\ Len(DataLines) > Len(data)

\* The classification C3 states, for an unwrapped field v.
ClaimedCell(v) ==
  IF v = <<>> \/ toLowerCase(v) \in {NullText, NanText} THEN Null
  ELSE IF ~isNaN(Number(v)) THEN Num(Number(v))
  ELSE IF toLowerCase(v) = TrueText THEN Bool(TRUE)
  ELSE IF toLowerCase(v) = FalseText THEN Bool(FALSE)
  ELSE Str(v)

\* The cell of row r that comes from field j of its line; a header repeated
\* further right overwrites it.
LastOfItsName(j) == \A k \in (j + 1)..Len(headers) : headers[k] # headers[j]
FieldsOfRow(r) == parseLine(MatchingLines[r])

\* C3: every cell of a parsed row is null for an empty, 'null' or 'nan' field
\* (in any letter case), otherwise a number for a numeric field, otherwise a
\* boolean for 'true' / 'false' (in any letter case), otherwise the field as a
\* string; an empty field is never the number zero.
TypeInferenceOrdered ==
  Parsed =>
    \A r \in 1..Len(data) : \A j \in 1..Len(headers) :
      LastOfItsName(j) =>
        /\ Get(data[r], headers[j]) = ClaimedCell(FieldsOfRow(r)[j])
        /\ FieldsOfRow(r)[j] = <<>> => Get(data[r], headers[j]) = Null
        /\ FieldsOfRow(r)[j] = <<"N","a","N">> => Get(data[r], headers[j]) = Null
        /\ FieldsOfRow(r)[j] = <<"4","2">> => Get(data[r], headers[j]) = Num(Finite(42))
        /\ FieldsOfRow(r)[j] = <<"T","R","U","E">> => Get(data[r], headers[j]) = Bool(TRUE)
        /\ FieldsOfRow(r)[j] = <<"a","b","c">> => Get(data[r], headers[j]) = Str(<<"a","b","c">>)

\* C3 witness: a parsed text whose rows hold a null cell read from an empty
\* field and a number cell.
TypeInferenceSeen ==
  /\ Parsed
  /\ pc = "rows"
  /\ headers = <<<<"a">>>>
  /\ \E r \in 1..Len(data) : FieldsOfRow(r)[1] = <<>> /\ Get(data[r], <<"a">>) = Null
  /\ \E r \in 1..Len(data) : Get(data[r], <<"a">>).kind = "number"

\* A comma is outside quotes when an even number of double quotes precedes it.
OutsideComma(line, i) ==
  line[i] = COMMA /\ Cardinality({j \in 1..(i - 1) : line[j] = QUOTE}) % 2 = 0
OutsideCommas(line) == Cardinality({i \in 1..Len(line) : OutsideComma(line, i)})
InsideCommas(line) ==
  Cardinality({i \in 1..Len(line) : line[i] = COMMA /\ ~OutsideComma(line, i)})

\* The commas in the string cells of a row, and in the header names
CommaPlaces(text) == {i \in 1..Len(text) : text[i] = COMMA}
CommasOfRow(row) ==
  Cardinality(UNION {{<<j, i>> : i \in IF row[j][2].kind = "string"
                                       THEN CommaPlaces(row[j][2].s) ELSE {}} :
                       j \in 1..Len(row)})
CommasOfHeaders ==
  Cardinality(UNION {{<<j, i>> : i \in CommaPlaces(headers[j])} : j \in 1..Len(headers)})

\* The data lines with as many commas outside quotes as the header line
SameOutside(line) == OutsideCommas(line) = OutsideCommas(NonBlankLines[1])
SameOutsideLines == SelectSeq(DataLines, SameOutside)

DistinctHeaders ==
  /\ \A j, k \in 1..Len(headers) : j # k => headers[j] # headers[k]
  /\ \A j \in 1..Len(headers) : headers[j] # ID

\* C13: a comma ends a field only outside quotes, every double quote
\* toggling the mode: a line with k commas outside quotes gives k + 1 fields
\* (the header line its k + 1 headers, and the rows are the data lines with
\* as many outside commas as the header line), and the commas inside quotes
\* are kept in the values (in the header names and in the row's cells).
QuoteAwareTokenization ==
  (Parsed /\ NonBlankLines # <<>>) =>
    /\ Len(headers) = OutsideCommas(NonBlankLines[1]) + 1
    /\ CommasOfHeaders = InsideCommas(NonBlankLines[1])
    /\ Len(data) = Len(SameOutsideLines)
    /\ \A r \in 1..Len(data) :
         /\ Len(parseLine(SameOutsideLines[r])) = OutsideCommas(SameOutsideLines[r]) + 1
         /\ DistinctHeaders => CommasOfRow(data[r]) = InsideCommas(SameOutsideLines[r])

\* C13 witness: a header name and a cell that hold a comma written inside
\* quotes, in a table of two columns.
QuoteAwareTokenizationSeen ==
  /\ Parsed
  /\ pc = "rows"
  /\ headers = << <<"a", COMMA, "b">>, <<"a">> >>
  /\ \E r \in 1..Len(data) : Get(data[r], <<"a">>) = Str(<<"x", COMMA, "y">>)

\* A decimal numeral: an optional sign and digits, with blanks around it
IsNumeral(text) ==
  LET t == trim(text)
      body == IF t # <<>> /\ Head(t) \in {"+", "-"} THEN Tail(t) ELSE t
  IN  IsDigits(body)

\* C14: every number cell of a parsed row is finite and comes from a field
\* that is a numeral as a whole: 'Infinity' and '-Infinity' give no number
\* cell, and neither does a numeral followed by other characters.
NumberCellsFinite ==
  Parsed =>
    \A r \in 1..Len(data) : \A j \in 1..Len(headers) :
      (LastOfItsName(j) /\ Get(data[r], headers[j]).kind = "number") =>
        /\ Get(data[r], headers[j]).inf = 0
        /\ IsNumeral(FieldsOfRow(r)[j])

\* The 1-based positions, among the non-blank data lines, of the lines that
\* gave a row
LinePositions ==
  LET Matches(k) == MatchesHeader(DataLines[k])
  IN  SelectSeq([k \in 1..Len(DataLines) |-> k], Matches)

RowIdsByPosition ==
  /\ \A r \in 1..Len(data) : Get(data[r], ID) = RowId(LinePositions[r])
  /\ \A r, q \in 1..Len(data) : r # q => Get(data[r], ID) # Get(data[q], ID)

\* C15: every parsed row carries the identifier 'row-k', k being the 1-based
\* position of its line among the non-blank data lines (skipped lines count),
\* and no two rows of a result share an identifier; for every header, a
\* column named 'id' included.
RowIdsUniqueByPosition == Parsed => RowIdsByPosition

\* The same for the texts that have no column named 'id', where it holds.
RowIdsUniqueWithoutIdColumn ==
  (Parsed /\ \A j \in 1..Len(headers) : headers[j] # ID) => RowIdsByPosition

\* The lines of the text by the places of its line feeds: a line starts at
\* the first character and after every line feed, and ends before the next
\* line feed, or before the carriage return that precedes that line feed.
LineFeeds == {i \in 1..Len(content) : content[i] = LF}
LineStarts == {1} \cup {i + 1 : i \in LineFeeds}
LineAt(start) ==
  LET ends == {i \in LineFeeds : i >= start}
      end == IF ends = {} THEN Len(content) + 1
             ELSE CHOOSE i \in ends : \A o \in ends : i <= o
      raw == SubSeq(content, start, end - 1)
  IN  IF ends # {} /\ raw # <<>> /\ raw[Len(raw)] = CR
      THEN SubSeq(raw, 1, Len(raw) - 1) ELSE raw

IsBlankLine(line) == \A i \in 1..Len(line) : line[i] \in WhiteSpace
FilledStarts == {start \in LineStarts : ~IsBlankLine(LineAt(start))}
\* The lines that are not blank, in the order of the text
FilledLines ==
  [n \in 1..Cardinality(FilledStarts) |->
     LineAt(CHOOSE start \in FilledStarts :
              Cardinality({o \in FilledStarts : o < start}) = n - 1)]

\* C16: the lines that are empty after trimming are dropped wherever they
\* stand, with LF or CR LF line ends, before the header is chosen: the
\* header is the first line that is not blank and the rows come from the
\* other such lines; a text without such a line gives no headers and no rows.
BlankLinesDropped ==
  pc \in {"rows", "exported", "reparsed"} =>
    /\ FilledLines = <<>> => headers = <<>> /\ data = <<>>
    /\ FilledLines # <<>> =>
         /\ headers = parseLine(FilledLines[1])
         /\ LET Fits(line) == Len(parseLine(line)) = Len(headers)
                fitting == SelectSeq(Tail(FilledLines), Fits)
            IN  /\ Len(data) = Len(fitting)
                /\ \A r \in 1..Len(data) : \A j \in 1..Len(headers) :
                     LastOfItsName(j) =>
                       Get(data[r], headers[j]) = InferCell(parseLine(fitting[r])[j])

\* C16 witness: a text that starts with a line of blanks only, ended by
\* CR LF, and gives the header a and one row.
BlankLinesDroppedSeen ==
  /\ pc = "rows"
  /\ Len(content) >= 3
  /\ SubSeq(content, 1, 3) = <<" ", CR, LF>>
  /\ headers = << <<"a">> >>
  /\ Len(data) = 1

\* C16 witness of the empty case: a text of blank lines only.
OnlyBlankLinesSeen ==
  /\ pc = "rows"
  /\ Len(content) >= 3
  /\ FilledLines = <<>>
  /\ headers = <<>> /\ data = <<>>

(***************************************************************************)
(* Properties of the validator                                             *)
(***************************************************************************)
Validated == pc = "validated"

Present(val) == val.kind \notin {"null", "undefined"} /\ val # Str(<<>>)

\* A nonconforming cell, as the specification defines it.
Nonconforming(val, type) ==
  /\ Present(val)
  /\ \/ type = "number" /\ val.kind # "number"
     \/ type = "boolean" /\ val.kind # "boolean"

Checked(col) == col.type # "mixed" /\ col.name # ID

RowNumbers == [r \in 1..Len(data) |-> r]
IsBadIn(col, r) == Nonconforming(Get(data[r], col.name), col.type)
\* The rows whose cell of the column is nonconforming, in row order
BadRows(col) == LET Bad(r) == IsBadIn(col, r) IN SelectSeq(RowNumbers, Bad)

\* The number of cells the result reports for a column name
Reported(name) ==
  IF \E k \in 1..Len(result.errors) : result.errors[k].column = name
  THEN result.errors[CHOOSE k \in 1..Len(result.errors) : result.errors[k].column = name].issueCount
  ELSE 0

\* C4, as stated: for every column descriptor, the cells counted as
\* nonconforming are exactly the present cells that are not numbers in a
\* 'number' column or not booleans in a 'boolean' column.
CountsExactlyNonconforming ==
  Validated =>
    \A c \in 1..Len(columns) : Reported(columns[c].name) = Len(BadRows(columns[c]))

\* C4, amended: for every checked column descriptor (type not 'mixed', name
\* not 'id'), the cells counted as nonconforming are exactly the present cells
\* that are not numbers in a 'number' column or not booleans in a 'boolean'
\* column; 'string' and 'date' columns have none.
CheckedCountsExactlyNonconforming ==
  Validated =>
    \A c \in 1..Len(columns) :
      Checked(columns[c]) =>
        /\ Reported(columns[c].name) = Len(BadRows(columns[c]))
        /\ columns[c].type \in {"string", "date"} => Reported(columns[c].name) = 0

\* C4 witness: a 'number' column with a counted string cell next to a 'string'
\* column that holds a number and counts nothing.
CheckedCountsSeen ==
  /\ Validated
  /\ \E c \in 1..Len(columns) :
       /\ columns[c].type = "number" /\ Checked(columns[c])
       /\ Reported(columns[c].name) > 0
  /\ \E c \in 1..Len(columns) :
       /\ columns[c].type = "string" /\ Checked(columns[c])
       /\ \E r \in 1..Len(data) : Get(data[r], columns[c].name).kind = "number"

\* The checked columns that have a nonconforming cell, in descriptor order
IsFlagged(col) == Checked(col) /\ BadRows(col) # <<>>
FlaggedColumns == SelectSeq(columns, IsFlagged)

ExampleTexts(col) ==
  LET bad == BadRows(col)
      shown == IF Len(bad) < 3 THEN Len(bad) ELSE 3
  IN  [k \in 1..shown |-> String(Get(data[bad[k]], col.name))]

\* C5: the violation list holds one record for each checked column that has a
\* nonconforming cell and no other, in descriptor order; a record counts the
\* nonconforming cells of its column and shows the texts of the first three
\* (or fewer) in row order.  The specification's example gives count 2 and
\* examples 'N/A', 'old'.
OneRecordPerFlaggedColumn ==
  Validated =>
    /\ Len(result.errors) = Len(FlaggedColumns)
    /\ \A k \in 1..Len(FlaggedColumns) :
         /\ result.errors[k].column = FlaggedColumns[k].name
         /\ result.errors[k].expectedType = FlaggedColumns[k].type
         /\ result.errors[k].issueCount = Len(BadRows(FlaggedColumns[k]))
         /\ result.errors[k].examples = ExampleTexts(FlaggedColumns[k])
    /\ (data = ExampleInput.data /\ columns = ExampleInput.columns) =>
         /\ Len(result.errors) = 1
         /\ result.errors[1].issueCount = 2
         /\ result.errors[1].examples = <<NA, OLD>>

\* C5 witness: a column with four nonconforming cells, of which three are shown.
RecordCapsExamplesSeen ==
  /\ Validated
  /\ Len(result.errors) = 1
  /\ result.errors[1].issueCount = 4
  /\ Len(result.errors[1].examples) = 3

CheckedColumns == {c \in 1..Len(columns) : Checked(columns[c])}
CheckedCells == CheckedColumns \X (1..Len(data))
ConformingCells == {p \in CheckedCells : ~IsBadIn(columns[p[1]], p[2])}

\* round(100 * valid / total), halves rounded up
RoundedPercent(valid, total) == (200 * valid + total) \div (2 * total)

\* C6: the score is an integer in 0..100, the rounded percentage of the
\* conforming cells among all (checked column, row) pairs, missing cells
\* included; with no such pair it is 100, isValid is true and there is no
\* violation.
ScoreIsRoundedPercent ==
  Validated =>
    /\ totalCellCount = Cardinality(CheckedCells)
    /\ validCellCount = Cardinality(ConformingCells)
    /\ result.score \in 0..100
    /\ totalCellCount = 0 =>
         result.score = 100 /\ result.isValid /\ result.errors = <<>>
    /\ totalCellCount > 0 =>
         result.score = RoundedPercent(validCellCount, totalCellCount)

\* C7: isValid holds exactly when there is no violation record; and whenever
\* a checked cell is nonconforming, isValid is false and the score is below
\* 100, however many cells were checked.
InvalidMeansBelowHundred ==
  Validated =>
    /\ result.isValid <=> result.errors = <<>>
    /\ ConformingCells # CheckedCells => ~result.isValid /\ result.score < 100

Missing(val) == val \in {Null, Undefined, Str(<<>>)}
MissingRows(col) == {r \in 1..Len(data) : Missing(Get(data[r], col.name))}

\* C8: no null, undefined or empty cell is counted as nonconforming, whatever
\* the declared type: the cells counted for a checked column are at most its
\* other cells, and the missing cells of the checked columns are among the
\* valid ones.  A 'number' or 'boolean' column whose cells are all missing has
\* no violation record, and alone it gives the score 100.
MissingIsValid ==
  Validated =>
    /\ \A c \in CheckedColumns :
         Reported(columns[c].name) + Cardinality(MissingRows(columns[c])) <= Len(data)
    /\ \A c \in CheckedColumns :
         (/\ columns[c].type \in {"number", "boolean"}
          /\ Cardinality(MissingRows(columns[c])) = Len(data)) =>
           /\ Reported(columns[c].name) = 0
           /\ CheckedColumns = {c} =>
                /\ result.score = 100
                /\ validCellCount = totalCellCount
                /\ totalCellCount = Len(data)

\* C8 witness: a 'number' column of a null, an absent and an empty cell.
MissingIsValidSeen ==
  /\ Validated
  /\ Len(columns) = 1
  /\ columns[1].type = "number"
  /\ {Get(data[r], columns[1].name) : r \in 1..Len(data)} = {Null, Undefined, Str(<<>>)}
  /\ result.score = 100
  /\ result.errors = <<>>

\* C9: a descriptor of type 'mixed' or named 'id' has no violation record
\* and adds nothing to the counters: the total is the number of rows for
\* every other descriptor, the valid count its conforming cells.
SkippedColumnsIgnored ==
  Validated =>
    /\ \A c \in 1..Len(columns) :
         ~Checked(columns[c]) =>
           \A k \in 1..Len(result.errors) : result.errors[k].column # columns[c].name
    /\ totalCellCount = Len(data) * Cardinality(CheckedColumns)
    /\ validCellCount = Cardinality(ConformingCells)

\* C9 witness: a 'mixed' column holding a number and a string, and a 'number'
\* column named 'id' holding a string, next to no violation for either.
SkippedColumnsSeen ==
  /\ Validated
  /\ \E c \in 1..Len(columns) :
       /\ columns[c].type = "mixed" /\ columns[c].name # ID
       /\ {Get(data[r], columns[c].name).kind : r \in 1..Len(data)} = {"number", "string"}
  /\ \E c \in 1..Len(columns) :
       /\ columns[c].name = ID /\ columns[c].type = "number"
       /\ \E r \in 1..Len(data) : Get(data[r], ID).kind = "string"
  /\ result.errors = <<>>

NamesNoColumn(col) == \A r \in 1..Len(data) : ~HasKey(data[r], col.name)
DescriptorMismatch ==
  data # <<>> /\ \E c \in 1..Len(columns) : NamesNoColumn(columns[c])

ExportedColumns == parseLine(SplitLines(csv)[1])

\* C10: neither 'id' nor '_flags' is a column of the exported text, also for
\* rows to which a transform attached a _flags map.
ExportOmitsIdAndFlags ==
  pc \in {"exported", "reparsed"} =>
    \A k \in 1..Len(ExportedColumns) : ExportedColumns[k] \notin {ID, FLAGS}

\* The columns the export has: the keys of the first row, in the order of
\* Object.keys, without the identifier
ShapeColumns ==
  IF data = <<>> THEN <<>>
  ELSE LET NotId(k) == k # ID IN SelectSeq(ObjectKeys(data[1]), NotId)

\* A text in double quotes, every double quote of it written twice
QuotedForm(text) ==
  <<QUOTE>>
    \o join([i \in 1..Len(text) |->
               IF text[i] = QUOTE THEN <<QUOTE, QUOTE>> ELSE <<text[i]>>], <<>>)
    \o <<QUOTE>>

\* The string form of a cell, null and undefined being empty
ShapeText(val) == IF val \in {Null, Undefined} THEN <<>> ELSE String(val)

ShapeHeaderLine == join(ShapeColumns, <<COMMA>>)
ShapeDataLine(r) ==
  join([k \in 1..Len(ShapeColumns) |-> QuotedForm(ShapeText(Get(data[r], ShapeColumns[k])))],
       <<COMMA>>)

\* The text is the header line and one line for each row, with one newline
\* between two of them and none after the last.
ShapeJoined ==
  csv = join(<<ShapeHeaderLine>> \o [r \in 1..Len(data) |-> ShapeDataLine(r)], <<LF>>)

HasNewline(text) == \E i \in 1..Len(text) : text[i] = LF
NewlineFree ==
  /\ \A k \in 1..Len(ShapeColumns) : ~HasNewline(ShapeColumns[k])
  /\ \A r \in 1..Len(data) : \A k \in 1..Len(ShapeColumns) :
       ~HasNewline(ShapeText(Get(data[r], ShapeColumns[k])))

Exported == pc \in {"exported", "reparsed"}

\* C11, as stated: the export of no rows is the empty text; otherwise the
\* text has exactly rows + 1 lines, it is the unquoted comma-joined header
\* line followed by one line for each row, joined by single newlines, and a
\* row's line holds for every header column, in header order, the cell's text
\* (empty for null and undefined) in double quotes with its quotes doubled.
ExportShape ==
  Exported =>
    /\ data = <<>> => csv = <<>>
    /\ data # <<>> => ShapeJoined /\ Len(SplitLines(csv)) = Len(data) + 1

\* C11, amended: as stated, the count of rows + 1 lines being that of the
\* joined line strings; the text has exactly rows + 1 lines when no header
\* name and no cell text holds a newline.
ExportShapeOfLineStrings ==
  Exported =>
    /\ data = <<>> => csv = <<>>
    /\ data # <<>> =>
         /\ ShapeJoined
         /\ NewlineFree => Len(SplitLines(csv)) = Len(data) + 1

\* C11 witness: two exported rows, a cell with a quote and a cell with a
\* comma, in a text of three lines.
ExportShapeSeen ==
  /\ Exported
  /\ Len(data) = 2
  /\ Get(data[1], <<"a">>) = Str(<<"q", QUOTE, "q">>)
  /\ Get(data[2], <<"a">>) = Str(<<"x", COMMA, "y">>)
  /\ Len(SplitLines(csv)) = 3

HasQuote(text) == \E i \in 1..Len(text) : text[i] = QUOTE

\* The string cells of the exported columns come back as the same strings.
StringsComeBack(Chosen(_)) ==
  \A r \in 1..Len(data) : \A k \in 1..Len(ShapeColumns) :
    LET cell == Get(data[r], ShapeColumns[k])
    IN  (cell.kind = "string" /\ Chosen(cell.s)) =>
          /\ r <= Len(reparsed.data)
          /\ Get(reparsed.data[r], ShapeColumns[k]) = cell

\* C12: parsing the exported text gives, for every string cell of the
\* exported rows, the same string as a string, also when the string holds
\* double quotes: parseCSV undoes the quote doubling of exportCSV.  (Stated
\* for the row sets without a newline in a text.)
QuoteDoublingInverts ==
  (pc = "reparsed" /\ NewlineFree) => LET Each(text) == TRUE IN StringsComeBack(Each)

\* The same for the strings without a double quote, which do come back.
QuoteFreeStringsComeBack ==
  (pc = "reparsed" /\ NewlineFree) =>
    LET Plain(text) == ~HasQuote(text) IN StringsComeBack(Plain)

Finishes(k) ==
  /\ k \in 1..Len(calls)
  /\ calls[k].settled # <<>>
  /\ calls' = Without(calls, k)

\* The actions that are marked 'completed'
CompletedActions(acts) == {i \in 1..Len(acts) : acts[i].status = "completed"}

\* The run is reported as failed: the last log entry has level 'error'
ReportedFailed(logs) == logs # <<>> /\ logs[Len(logs)].level = "error"

\* C20: when the handler of a call resumes whose collaborator request failed
\* (rejected, unparseable or non-array answer), cleanedData stays as it was
\* before the call, the run is reported as failed, and no action becomes
\* 'completed'.
FailureSurfaced ==
  [][\A k \in 1..Len(calls) :
       (Finishes(k) /\ calls[k].failed) =>
         /\ cleanedData' = calls[k].data
         /\ ReportedFailed(agentLogs')
         /\ CompletedActions(actions') = CompletedActions(actions)]_vars

\* The part of C20 that the code keeps: after a failed request cleanedData
\* is what it was before the call
FailureKeepsData ==
  [][\A k \in 1..Len(calls) :
       (Finishes(k) /\ calls[k].failed) => cleanedData' = calls[k].data]_vars

(***************************************************************************)
(* Properties of a session                                                 *)
(***************************************************************************)
\* The handler of call k resumes in this step in its catch block
FinishesFailed(k, handler) ==
  /\ Finishes(k)
  /\ calls[k].handler = handler
  /\ calls[k].settled[1].threw

\* The initial state of the workflow, in the next state
IdleNext ==
  /\ stage' = "idle"
  /\ ~isProcessing'
  /\ rawData' = <<>>
  /\ cleanedData' = <<>>
  /\ analysis' = <<>>
  /\ actions' = <<>>

\* C21: when handleFileUpload resumes after a failed analysis, the host is
\* in the initial state: stage 'idle', isProcessing false, rawData and
\* cleanedData empty, analysis null, actions empty.
AnalysisFailureReturnsToIdle ==
  [][\A k \in 1..Len(calls) : FinishesFailed(k, "upload") => IdleNext]_vars

\* The same for the first call of the session, which no earlier call can
\* answer into
FirstAnalysisFailureReturnsToIdle ==
  [][\A k \in 1..Len(calls) :
       (FinishesFailed(k, "upload") /\ issued = 1) => IdleNext]_vars

\* C22: whenever the validation modal is shown, the result it shows is
\* validateDataset of the current cleanedData and the current descriptors.
ModalShowsCurrentData ==
  ModalShown =>
    /\ analysis # <<>>
    /\ validationResult = Shown(validateDataset(cleanedData, analysis[1].columns))

\* The result is of the current data in the step that computes it
ValidateAndExportShowsCurrentData ==
  [][(~isValidationModalOpen /\ isValidationModalOpen') =>
       validationResult' = Shown(validateDataset(cleanedData', analysis'[1].columns))]_vars

\* Every row has an identifier string and no two rows share one
Identified(rows) ==
  /\ \A i \in 1..Len(rows) : Get(rows[i], ID).kind = "string"
  /\ \A i, j \in 1..Len(rows) : Get(rows[i], ID) = Get(rows[j], ID) => i = j

\* C23: no row of cleanedData is without an identifier or shares its
\* identifier with another row, whatever transforms have run.
RowIdentifiersKept == pc = "host" => Identified(cleanedData)

\* The transforms that run locally or filter the rows of the input by
\* identifier keep the identifiers: an action whose collaborator gave no
\* rows ('remove_duplicates'; 'remove_outliers' answered with identifiers)
LocalTransformsKeepIdentifiers ==
  [][\A k \in 1..Len(calls) :
       (Finishes(k) /\ calls[k].handler = "execute" /\ Identified(calls[k].data)
          /\ \/ calls[k].action.type = "remove_duplicates"
             \/ calls[k].settled[1].rows \in {RemoveIds(calls[k].data, a.items) : a \in IdAnswers})
       => Identified(cleanedData')]_vars

\* The column keys of a row, the identifier and the flag map aside
ColumnKeys(row) == {row[i][1] : i \in 1..Len(row)} \ {ID, FLAGS}
Uniform(rows) == \A i, j \in 1..Len(rows) : ColumnKeys(rows[i]) = ColumnKeys(rows[j])

\* C24: in every dataset the host holds, rawData and cleanedData, every
\* row has the same set of column keys as every other row.
KeySetsUniform == pc = "host" => (Uniform(rawData) /\ Uniform(cleanedData))

\* The parts that hold: the rows of parseCSV and the raw dataset
ParsedKeySetsUniform == Parsed => Uniform(data)
RawKeySetsUniform == pc = "host" => Uniform(rawData)

\* C25: a step that changes rawData or the analysis with its column
\* descriptors is a reset, the start of an upload, or the end of an upload
\* that stores a new analysis; no step of an action, a nuclear clean, a
\* validation, a repair or an export, begun, succeeded or failed, does.
RawDataAndDescriptorsKept ==
  [][(rawData' # rawData \/ analysis' # analysis) =>
       (Reset \/ FileUploadStart \/ FileUploadFinish)]_vars

\* A transform has replaced cleanedData and the raw rows are still loaded
RawDataAndDescriptorsKeptSeen ==
  /\ stage = "command_center"
  /\ rawData = UploadedRows
  /\ cleanedData = SubSeq(RepairedRows, 1, 2)
  /\ analysis # <<>>
  /\ analysis[1].columns = UploadedColumns
  /\ \E i \in 1..Len(actions) : actions[i].status = "completed"

\* Action i becomes 'completed' in this step
Completes(i) ==
  /\ i \in 1..Len(actions)
  /\ i \in 1..Len(actions')
  /\ actions[i].status # "completed"
  /\ actions'[i].status = "completed"

\* The step stores the rows that the transform of call k gave
StoresResult(k) ==
  /\ Finishes(k)
  /\ ~calls[k].settled[1].threw
  /\ cleanedData' = calls[k].settled[1].rows

\* Call k is the transform of action i, or a nuclear clean
TransformOf(k, i) ==
  \/ calls[k].handler = "nuclear"
  \/ calls[k].handler = "execute" /\ calls[k].action.id = actions[i].id

\* The analysis of an upload is stored in this step
StoresAnalysis == \E k \in 1..Len(calls) :
  Finishes(k) /\ calls[k].handler = "upload" /\ ~calls[k].settled[1].threw

\* C26: the actions an analysis brings are all 'pending'; an action becomes
\* 'completed' only in the step that stores the result of its own transform
\* or of a nuclear clean, started on the dataset that is loaded; a completed
\* action stays completed while that dataset is loaded; and the action a
\* transform is started for is not completed.
ActionStatusTracked ==
  [][/\ StoresAnalysis => \A i \in 1..Len(actions') : actions'[i].status = "pending"
     /\ \A i \in 1..Len(actions) :
          Completes(i) => \E k \in 1..Len(calls) :
            StoresResult(k) /\ TransformOf(k, i) /\ calls[k].load = loaded
     /\ loaded' = loaded =>
          \A i \in 1..Len(actions) :
            actions[i].status = "completed" =>
              (i \in 1..Len(actions') /\ actions'[i].status = "completed")
     /\ (Len(calls') > Len(calls) /\ calls'[Len(calls')].handler = "execute") =>
          \E i \in 1..Len(actions) :
            actions[i] = calls'[Len(calls')].action /\ actions[i].status # "completed"
    ]_vars

\* The same without the demand that the transform was started on the
\* dataset that is loaded
ActionStatusTrackedByName ==
  [][/\ StoresAnalysis => \A i \in 1..Len(actions') : actions'[i].status = "pending"
     /\ \A i \in 1..Len(actions) :
          Completes(i) => \E k \in 1..Len(calls) : StoresResult(k) /\ TransformOf(k, i)
     /\ loaded' = loaded =>
          \A i \in 1..Len(actions) :
            actions[i].status = "completed" =>
              (i \in 1..Len(actions') /\ actions'[i].status = "completed")
     /\ (Len(calls') > Len(calls) /\ calls'[Len(calls')].handler = "execute") =>
          \E i \in 1..Len(actions) :
            actions[i] = calls'[Len(calls')].action /\ actions[i].status # "completed"
    ]_vars

\* No dataset is loaded: the state a reset leaves
Blank == rawData = <<>> /\ cleanedData = <<>> /\ analysis = <<>>
BlankNext == rawData' = <<>> /\ cleanedData' = <<>> /\ analysis' = <<>>

\* Call k is late: a transform started on a dataset that is no longer the
\* one loaded, or an upload with a newer upload in flight
Late(k) ==
  /\ k \in 1..Len(calls)
  /\ \/ calls[k].handler # "upload" /\ calls[k].load # loaded
     \/ calls[k].handler = "upload" /\ \E j \in 1..Len(calls) :
          calls[j].handler = "upload" /\ calls[j].no > calls[k].no

OneCallInFlight ==
  pc = "host" => (Len(calls) <= 1 /\ (isProcessing <=> calls # <<>>))

\* Two calls are in flight
TwoCallsInFlight == Len(calls) = 2 /\ calls[1].settled = <<>> /\ calls[2].settled = <<>>

(***************************************************************************)
(* Properties of 'remove_duplicates'                                       *)
(***************************************************************************)
\* The cell content of a row: its keys with their values, 'id' and '_flags'
\* aside, whatever the order of the keys
Content(row) ==
  {<<row[i][1], row[i][2]>> : i \in {j \in 1..Len(row) : row[j][1] \notin {ID, FLAGS}}}

\* The places of the rows that no earlier row equals, under a notion Of(_)
\* of what is compared, and the rows at a set of places in their order
FirstPlaces(rows, Of(_)) ==
  {i \in 1..Len(rows) : \A j \in 1..(i - 1) : Of(rows[j]) # Of(rows[i])}
RECURSIVE RowsAt(_, _, _)
RowsAt(rows, places, i) ==
  IF i > Len(rows) THEN <<>>
  ELSE (IF i \in places THEN <<rows[i]>> ELSE <<>>) \o RowsAt(rows, places, i + 1)

\* The result keeps the first row of each distinct Of(_) with its
\* identifier, in the order of the input, and has no two rows of one Of(_)
FirstsKept(rows, Of(_)) ==
  /\ cleanedData' = RowsAt(rows, FirstPlaces(rows, Of), 1)
  /\ \A i, j \in 1..Len(cleanedData') :
       Of(cleanedData'[i]) = Of(cleanedData'[j]) => i = j

\* C29: 'remove_duplicates' removes the rows whose cell content equals that
\* of an earlier row: its result is the first row of each distinct content,
\* with its identifier and in the order of the input, no two rows of the
\* result have equal content, and applied to its result it returns the
\* same rows.
DuplicatesRemoved ==
  [][/\ (pc = "rows" /\ pc' = "deduplicated") => FirstsKept(data, Content)
     /\ (pc = "deduplicated" /\ pc' = "deduplicated again") => cleanedData' = cleanedData
    ]_vars

\* The same with the rows compared as the code compares them, by the JSON
\* text of their sorted entries, in which a number that is not finite is null
DuplicatesRemovedByJsonText ==
  [][/\ (pc = "rows" /\ pc' = "deduplicated") => FirstsKept(data, Signature)
     /\ (pc = "deduplicated" /\ pc' = "deduplicated again") => cleanedData' = cleanedData
    ]_vars

(***************************************************************************)
(* Progress of the host                                                    *)
(***************************************************************************)
\* C30: whenever isProcessing is true, it is false again later, provided
\* the collaborator answers and the handlers resume.
ProcessingEnds == isProcessing ~> ~isProcessing

\* A handler is about to resume in its catch block while isProcessing
ProcessingEndsSeen ==
  /\ isProcessing
  /\ \E k \in 1..Len(calls) : calls[k].settled # <<>> /\ calls[k].settled[1].threw

====
